---- MODULE Spec2Model ----
(***************************************************************************)
(* Model of the bookkeeping application: the FinanceContext stores         *)
(* (transactions, chart of accounts, budget), the Ledger and               *)
(* Reconciliation page handlers that mutate them, and the derived views    *)
(* (running balance, trial balance, bank reconciliation, budget vs         *)
(* actuals) of the Ledger and Reports pages.                               *)
(*                                                                         *)
(* Conventions.                                                            *)
(*  - Amounts are integers (minor units, i.e. pesewas).                    *)
(*  - A date "YYYY-MM-DD" is the integer YYYYMMDD, so that JavaScript's    *)
(*    string comparison of zero-padded ISO dates is integer comparison.    *)
(*  - A transaction record carries id, date, amount, type, accountCode     *)
(*    and status; the free-text fields (voucherNumber, description, ...)   *)
(*    are copied along by every handler and are left out.                  *)
(***************************************************************************)
EXTENDS Integers, Sequences, FiniteSets, TLC

VARIABLES
    transactions,         \* FinanceContext: useState<Transaction[]>
    chartOfAccounts,      \* FinanceContext: useState<ChartOfAccountItem[]>
    budget,               \* FinanceContext: useState<BudgetLine[]>
    nextId,               \* the next value crypto.randomUUID() hands out
    route,                \* the page the router shows
    isModalOpen,          \* Ledger: add/edit modal
    editingId,            \* Ledger: id being edited, or Null
    formData,             \* Ledger: form state
    deletedTx,            \* Ledger: transaction kept for Undo, or Null
    showUndoToast,        \* Ledger: Undo toast visible
    bankLines,            \* Reconciliation: working set of bank lines
    dateRange,            \* Reports: [start, end]
    bankStatementBalance, \* Reports: statement balance typed by the user
    tzOffset,             \* environment: sign of the local UTC offset
    everReconciled,       \* history: ids that have had status RECONCILED
    isEditing,            \* Settings: the form edits an existing account
    editCode,             \* Settings: code of the account being edited, or Null
    coaForm,              \* Settings: form state (formData of the Settings page)
    storage,              \* localStorage: the three persisted blobs
    lastEvent,            \* history: the last context method or handler run
    apiKey,               \* environment: process.env.API_KEY is set
    isSuggesting,         \* Ledger: AI Categorize is running
    suggestCall,          \* Ledger: the handleSmartCategorize call in flight
    isParsing,            \* Reconciliation: a bank statement is being parsed
    parseCall,            \* Reconciliation: the bank upload in flight, or Null
    timeouts,             \* pending setTimeout callbacks: time left, in ticks
    sinceDelete,          \* history: ticks since the last Ledger delete, or Null
    mountStep,            \* FinanceProvider: how far the mount effects have run
    queued                \* FinanceProvider: state set by an effect, not yet rendered

vars == <<transactions, chartOfAccounts, budget, nextId, route, isModalOpen,
          editingId, formData, deletedTx, showUndoToast, bankLines, dateRange,
          bankStatementBalance, tzOffset, everReconciled, isEditing, editCode,
          coaForm, storage, lastEvent, apiKey, isSuggesting, suggestCall,
          isParsing, parseCall, timeouts, sinceDelete, mountStep, queued>>

ledgerVars == <<isModalOpen, editingId, formData, deletedTx, showUndoToast>>
reportVars == <<dateRange, bankStatementBalance>>
storeVars  == <<chartOfAccounts, budget>>
settingsVars == <<isEditing, editCode, coaForm>>
asyncVars == <<apiKey, isSuggesting, suggestCall, isParsing, parseCall,
               timeouts, sinceDelete, mountStep, queued>>
otherVars == <<tzOffset, settingsVars, lastEvent, asyncVars>>

(***************************************************************************)
(* Bounds                                                                  *)
(***************************************************************************)
MaxTx == 2          \* most transactions held by the store
MaxAmount == 2      \* largest amount entered

Null == <<>>        \* null: an optional value v is <<v>>
Undefined == "undefined"

(***************************************************************************)
(* types.ts                                                                *)
(***************************************************************************)
TransactionType ==
    [INCOME |-> "INCOME", EXPENSE |-> "EXPENSE", ADV |-> "ADV", TRF |-> "TRF"]

TransactionStatus ==
    [CLEARED |-> "CLEARED", PENDING |-> "PENDING", RECONCILED |-> "RECONCILED"]

\* TransactionType.X as the compiled enum object answers it: a member that
\* the enum does not declare (CONT, OPENING, PCA, NB, ITAX, WHT, SSEC)
\* evaluates to undefined.
TypeMember(name) ==
    IF name \in DOMAIN TransactionType THEN TransactionType[name] ELSE Undefined

Types == {TransactionType[k] : k \in DOMAIN TransactionType}
Statuses == {TransactionStatus[k] : k \in DOMAIN TransactionStatus}

(***************************************************************************)
(* Array helpers (Array.prototype.filter / reduce / map on sequences)      *)
(***************************************************************************)
RECURSIVE SumAmounts(_)
SumAmounts(s) ==
    IF s = <<>> THEN 0 ELSE Head(s).amount + SumAmounts(Tail(s))

Abs(x) == IF x < 0 THEN -x ELSE x

(***************************************************************************)
(* FinanceContext.tsx                                                      *)
(***************************************************************************)
\* String(id).  A string id "n" is the positive integer n and the JSON number
\* n is the integer -n, so String maps both to n; 0 stands for an id that is
\* absent or falsy (undefined, null, "", 0).
StringOf(id) == IF id < 0 THEN -id ELSE id

addTransactionMutant(prev, t) == prev \o <<[t EXCEPT !.id = StringOf(t.id)]>>

addTransaction(prev, t) == <<[t EXCEPT !.id = StringOf(t.id)]>> \o prev

deleteTransactionMutant(prev, id) ==
    SelectSeq(prev, LAMBDA t : t.id # id)

deleteTransaction(prev, id) ==
    SelectSeq(prev, LAMBDA t : StringOf(t.id) # StringOf(id))

updateTransactionMutant(prev, t) ==
    [i \in 1..Len(prev) |-> [t EXCEPT !.id = StringOf(t.id)]]

updateTransaction(prev, t) ==
    [i \in 1..Len(prev) |->
        IF StringOf(prev[i].id) = StringOf(t.id)
        THEN [t EXCEPT !.id = StringOf(t.id)]
        ELSE prev[i]]

RECURSIVE getBalance(_)
getBalance(txs) ==
    IF txs = <<>> THEN 0
    ELSE LET t == txs[Len(txs)]
             acc == getBalance(SubSeq(txs, 1, Len(txs) - 1))
         IN IF t.type = TypeMember("INCOME") \/ t.type = TypeMember("CONT")
               \/ t.type = TypeMember("OPENING")
            THEN acc + t.amount
            ELSE acc - t.amount

(***************************************************************************)
(* Dates                                                                   *)
(***************************************************************************)
YearOf(d)  == d \div 10000
MonthOf(d) == (d \div 100) % 100
DayOf(d)   == d % 100

\* new Date("YYYY-MM-DD").getTime(): the instant of UTC midnight of that
\* day.  The model counts days instead of milliseconds and uses a calendar
\* of 31-day slots; the value is strictly increasing in the date, which is
\* all the sort comparator reads.
getTime(d) == (YearOf(d) * 12 + (MonthOf(d) - 1)) * 31 + (DayOf(d) - 1)

(***************************************************************************)
(* Ledger.tsx: transactionsWithBalance                                     *)
(***************************************************************************)
\* comparator of the sort call: negative, zero or positive
compareByDate(a, b) == getTime(a.date) - getTime(b.date)

\* Array.prototype.sort is stable: an element goes after every element that
\* does not compare greater than it.
RECURSIVE InsertSorted(_, _)
InsertSorted(sorted, t) ==
    IF sorted = <<>> THEN <<t>>
    ELSE IF compareByDate(Head(sorted), t) > 0
         THEN <<t>> \o sorted
         ELSE <<Head(sorted)>> \o InsertSorted(Tail(sorted), t)

RECURSIVE sortByDate(_)
sortByDate(txs) ==
    IF txs = <<>> THEN <<>>
    ELSE InsertSorted(sortByDate(SubSeq(txs, 1, Len(txs) - 1)), txs[Len(txs)])

\* the step of the running balance: only INCOME adds, every other type
\* subtracts
ledgerStepMutant(balance, t) ==
    IF t.type = TypeMember("INCOME") \/ t.type = TypeMember("TRF")
    THEN balance + t.amount
    ELSE balance - t.amount

ledgerStep(balance, t) ==
    IF t.type = TypeMember("INCOME")
    THEN balance + t.amount
    ELSE balance - t.amount

RECURSIVE withBalanceFrom(_, _)
withBalanceFrom(balance, sorted) ==
    IF sorted = <<>> THEN <<>>
    ELSE LET b == ledgerStep(balance, Head(sorted))
         IN <<[tx |-> Head(sorted), runningBalance |-> b]>>
            \o withBalanceFrom(b, Tail(sorted))

\* rows of the Ledger table before the column filters are applied
transactionsWithBalance(txs) == withBalanceFrom(0, sortByDate(txs))

(***************************************************************************)
(* Reports.tsx: type helpers                                               *)
(***************************************************************************)
isIncomeType(type) == type = TypeMember("INCOME") \/ type = TypeMember("CONT")
isOpeningType(type) == type = TypeMember("OPENING")
isExpenseType(type) == type = TypeMember("EXPENSE")

(***************************************************************************)
(* Reports.tsx: trialBalanceData                                           *)
(***************************************************************************)
isDebitType(type) ==
    \/ type = TypeMember("EXPENSE")
    \/ type = TypeMember("ADV")
    \/ type = TypeMember("PCA")
    \/ type = TypeMember("NB")
    \/ type = TypeMember("TRF")
    \/ type = TypeMember("ITAX")
    \/ type = TypeMember("WHT")
    \/ type = TypeMember("SSEC")

netDebitCreditMutant(totalDebits, totalCredits) ==
    [debit |-> totalDebits, credit |-> totalCredits]

\* let debit = 0, credit = 0; the larger bucket shows its excess
netDebitCredit(totalDebits, totalCredits) ==
    IF totalDebits > totalCredits
    THEN [debit |-> totalDebits - totalCredits, credit |-> 0]
    ELSE [debit |-> 0, credit |-> totalCredits - totalDebits]

trialBalanceItem(account, txsAll) ==
    IF account.isHeader
    THEN [code |-> account.code, category |-> account.category,
          debit |-> 0, credit |-> 0, isHeader |-> TRUE]
    ELSE LET txs == SelectSeq(txsAll, LAMBDA t : t.accountCode = account.code)
             totalDebits ==
                 SumAmounts(SelectSeq(txs, LAMBDA t : isDebitType(t.type)))
             totalCredits ==
                 SumAmounts(SelectSeq(txs,
                     LAMBDA t : isIncomeType(t.type) \/ isOpeningType(t.type)))
             net == netDebitCredit(totalDebits, totalCredits)
         IN [code |-> account.code, category |-> account.category,
             debit |-> net.debit, credit |-> net.credit, isHeader |-> FALSE]

RECURSIVE SumField(_, _)
SumField(items, f) ==
    IF items = <<>> THEN 0 ELSE Head(items)[f] + SumField(Tail(items), f)

trialBalanceData(txs, chart) ==
    LET items == [i \in 1..Len(chart) |-> trialBalanceItem(chart[i], txs)]
    IN [items |-> items,
        totalDebits |-> SumField(items, "debit"),
        totalCredits |-> SumField(items, "credit")]


(***************************************************************************)
(* Reports.tsx: bankRecData                                                *)
(***************************************************************************)
isInflowMutant(t) == isExpenseType(t.type)

isInflow(t) == isIncomeType(t.type) \/ isOpeningType(t.type)

ledgerBalanceStepMutant(acc, t) ==
    IF isInflow(t) THEN acc + t.amount ELSE acc

ledgerBalanceStep(acc, t) ==
    IF isInflow(t) THEN acc + t.amount ELSE acc - t.amount

RECURSIVE reduceLedgerBalance(_)
reduceLedgerBalance(txs) ==
    IF txs = <<>> THEN 0
    ELSE ledgerBalanceStep(reduceLedgerBalance(SubSeq(txs, 1, Len(txs) - 1)),
                           txs[Len(txs)])

isUnreconciledMutant(t) == t.status = TransactionStatus.PENDING

isUnreconciled(t) == t.status # TransactionStatus.RECONCILED

bankRecData(txs, endDate, statementBalance) ==
    LET relevantTransactions == SelectSeq(txs, LAMBDA t : t.date <= endDate)
        ledgerBalance == reduceLedgerBalance(relevantTransactions)
        unreconciled == SelectSeq(relevantTransactions, isUnreconciled)
        reconciled ==
            SelectSeq(relevantTransactions,
                      LAMBDA t : t.status = TransactionStatus.RECONCILED)
        unpresentedCheques == SelectSeq(unreconciled, LAMBDA t : ~isInflow(t))
        outstandingDeposits == SelectSeq(unreconciled, isInflow)
        totalUnpresented == SumAmounts(unpresentedCheques)
        totalOutstanding == SumAmounts(outstandingDeposits)
        projectedBankBalance == ledgerBalance + totalUnpresented - totalOutstanding
    IN [ledgerBalance |-> ledgerBalance,
        unreconciled |-> unreconciled,
        reconciled |-> reconciled,
        unpresentedCheques |-> unpresentedCheques,
        outstandingDeposits |-> outstandingDeposits,
        totalUnpresented |-> totalUnpresented,
        totalOutstanding |-> totalOutstanding,
        projectedBankBalance |-> projectedBankBalance,
        difference |-> projectedBankBalance - statementBalance]

\* the difference is drawn green when Math.abs(difference) < 0.01, i.e. when
\* it is less than one minor unit
isBalanced(difference) == Abs(difference) < 1


(***************************************************************************)
(* Reports.tsx: monthDiff                                                  *)
(***************************************************************************)
IsLeapYear(y) == (y % 4 = 0 /\ y % 100 # 0) \/ y % 400 = 0

DaysInMonth(y, m) ==
    IF m = 2 THEN (IF IsLeapYear(y) THEN 29 ELSE 28)
    ELSE IF m \in {4, 6, 9, 11} THEN 30 ELSE 31

PrevDay(d) ==
    IF DayOf(d) > 1 THEN d - 1
    ELSE IF MonthOf(d) > 1
         THEN YearOf(d) * 10000 + (MonthOf(d) - 1) * 100
                + DaysInMonth(YearOf(d), MonthOf(d) - 1)
         ELSE (YearOf(d) - 1) * 10000 + 1231

\* new Date("YYYY-MM-DD") is the instant of UTC midnight of that day;
\* getFullYear() and getMonth() read it in local time.  West of UTC
\* (tz < 0) that instant falls on the evening of the previous local day;
\* at UTC and east of it (tz >= 0) it falls on the same local day.
LocalDate(d, tz) == IF tz < 0 THEN PrevDay(d) ELSE d

Max(a, b) == IF a > b THEN a ELSE b

monthDiff(range, tz) ==
    LET d1 == LocalDate(range.start, tz)
        d2 == LocalDate(range.end, tz)
        months0 == (YearOf(d2) - YearOf(d1)) * 12
        months1 == months0 - (MonthOf(d1) - 1)
        months == months1 + (MonthOf(d2) - 1)
    IN Max(months + 1, 1)

(***************************************************************************)
(* Reports.tsx: budgetVsActualsData                                        *)
(***************************************************************************)
inDateRangeMutant(t, range) == t.date >= range.start /\ t.date < range.end

inDateRange(t, range) == t.date >= range.start /\ t.date <= range.end

\* budget.find(b => b.code === code): the first line with that code, as a
\* one-element sequence, or the empty sequence for undefined
findBudget(lines, code) ==
    LET hits == SelectSeq(lines, LAMBDA b : b.code = code)
    IN IF hits = <<>> THEN <<>> ELSE <<Head(hits)>>

\* a quotient n / d is kept as the pair of its numerator and denominator
variancePercentOf(totalBudget, actual) ==
    IF totalBudget > 0
    THEN [num |-> (totalBudget - actual) * 100, den |-> totalBudget]
    ELSE [num |-> 0, den |-> 1]

budgetRow(cat, txs, lines, range, months) ==
    LET actual ==
            SumAmounts(SelectSeq(txs,
                LAMBDA t : /\ t.accountCode = cat.code
                           /\ isExpenseType(t.type)
                           /\ inDateRange(t, range)))
        budgetItem == findBudget(lines, cat.code)
        monthlyBudget ==
            IF budgetItem # <<>> THEN budgetItem[1].monthlyBudget ELSE 0
        totalBudget == monthlyBudget * months
    IN [code |-> cat.code, category |-> cat.category, actual |-> actual,
        budget |-> totalBudget, monthlyBudget |-> monthlyBudget,
        variance |-> totalBudget - actual,
        variancePercent |-> variancePercentOf(totalBudget, actual)]

compareVarianceMutant(a, b) ==
    IF a.variance > b.variance THEN -1 ELSE 1

\* comparator of the sort: -1 when |a.variance| > |b.variance|, else 1
compareVariance(a, b) ==
    IF Abs(a.variance) > Abs(b.variance) THEN -1 ELSE 1

\* the sort inserts each row in turn, before the first row it compares
\* smaller than (comparator < 0)
RECURSIVE InsertRow(_, _)
InsertRow(sorted, r) ==
    IF sorted = <<>> THEN <<r>>
    ELSE IF compareVariance(r, Head(sorted)) < 0
         THEN <<r>> \o sorted
         ELSE <<Head(sorted)>> \o InsertRow(Tail(sorted), r)

RECURSIVE sortRows(_)
sortRows(rows) ==
    IF rows = <<>> THEN <<>>
    ELSE InsertRow(sortRows(SubSeq(rows, 1, Len(rows) - 1)), rows[Len(rows)])

budgetVsActualsData(txs, chart, lines, range, tz) ==
    LET cats == SelectSeq(chart, LAMBDA c : ~c.isHeader)
        months == monthDiff(range, tz)
    IN sortRows([i \in 1..Len(cats) |->
                    budgetRow(cats[i], txs, lines, range, months)])


(***************************************************************************)
(* Initial state: the provider after construction and mount with nothing   *)
(* persisted, the Ledger page shown.                                       *)
(***************************************************************************)
Account(code, isHeader) == [code |-> code, category |-> code, isHeader |-> isHeader]

\* constants.ts (DEFAULT_CHART_OF_ACCOUNTS, MOCK_BUDGET): a group title and
\* two postable accounts, one of them budgeted.
DEFAULT_CHART_OF_ACCOUNTS ==
    <<Account("H", TRUE), Account("A", FALSE), Account("B", FALSE)>>
MOCK_BUDGET == <<[code |-> "A", monthlyBudget |-> 1]>>

TxDates == {20240105, 20240110, 20240201}
Today == 20240110

initialFormState ==
    [date |-> Today, type |-> TransactionType.EXPENSE,
     status |-> TransactionStatus.PENDING, accountCode |-> "", amount |-> 0]

\* Reports: useState of the date range, first day of the month .. today.
\* firstDay is local midnight of the 1st; toISOString() prints its UTC date,
\* which east of UTC (tz > 0) is the day before.
initialDateRangeFor(tz) ==
    LET firstDay == Today - DayOf(Today) + 1
    IN [start |-> IF tz > 0 THEN PrevDay(firstDay) ELSE firstDay, end |-> Today]

initialDateRange == initialDateRangeFor(0)

(***************************************************************************)
(* FinanceContext.tsx: persistence                                         *)
(***************************************************************************)
\* Two values that are not amounts, encoded as integers no amount reaches:
\* the number NaN (parseFloat of a non-numeric string) and JSON null.
NaN == -1000001
JsonNull == -1000002

\* JSON.stringify of a number, read back by JSON.parse: NaN is written as null
stringifyNumber(x) == IF x = NaN THEN JsonNull ELSE x

stringifyTransactions(txs) ==
    [i \in 1..Len(txs) |-> [txs[i] EXCEPT !.amount = stringifyNumber(@)]]

stringifyChart(chart) == chart

stringifyBudget(lines) ==
    [i \in 1..Len(lines) |-> [lines[i] EXCEPT !.monthlyBudget = stringifyNumber(@)]]

\* the save effects, each run when its own store was set
SaveTransactions ==
    storage' = [storage EXCEPT !.ngo_transactions = stringifyTransactions(transactions')]
SaveChart ==
    storage' = [storage EXCEPT !.ngo_coa = stringifyChart(chartOfAccounts')]
SaveBudget ==
    storage' = [storage EXCEPT !.ngo_budget = stringifyBudget(budget')]

initialCoaForm == [code |-> "", category |-> "", isHeader |-> FALSE]

NoEvent == [op |-> "none", arg |-> <<>>, again |-> FALSE]

\* the part of the initial state every specification shares: the Settings
\* form as mounted, and localStorage as the save effects of the first render
\* leave it
\* nothing in flight, the provider mounted and its effects run
AsyncInit ==
    /\ isSuggesting = FALSE
    /\ suggestCall = "idle"
    /\ isParsing = FALSE
    /\ parseCall = Null
    /\ timeouts = <<>>
    /\ sinceDelete = Null
    /\ mountStep = "done"
    /\ queued = Null

RestInit ==
    /\ isEditing = FALSE
    /\ editCode = Null
    /\ coaForm = initialCoaForm
    /\ lastEvent = NoEvent
    /\ apiKey = FALSE
    /\ AsyncInit
    /\ storage = [ngo_transactions |-> stringifyTransactions(transactions),
                  ngo_coa |-> stringifyChart(chartOfAccounts),
                  ngo_budget |-> stringifyBudget(budget)]

ReconciledIds(txs) ==
    {txs[i].id : i \in {j \in 1..Len(txs) :
                          txs[j].status = TransactionStatus.RECONCILED}}

BaseInit ==
    /\ transactions = <<>>
    /\ chartOfAccounts = DEFAULT_CHART_OF_ACCOUNTS
    /\ budget = MOCK_BUDGET
    /\ nextId = 1
    /\ route = "ledger"
    /\ isModalOpen = FALSE
    /\ editingId = Null
    /\ formData = initialFormState
    /\ deletedTx = Null
    /\ showUndoToast = FALSE
    /\ bankLines = <<>>
    /\ dateRange = initialDateRange
    /\ bankStatementBalance = 0
    /\ tzOffset = 0
    /\ everReconciled = {}
    /\ RestInit

\* A caller hands the store a new transaction built with a fresh id.
AddTransaction(S) ==
    /\ Len(transactions) < MaxTx
    /\ \E t \in S :
          transactions' = addTransaction(transactions, [t EXCEPT !.id = nextId])
    /\ nextId' = nextId + 1
    /\ everReconciled' = everReconciled \cup ReconciledIds(transactions')
    /\ UNCHANGED <<storeVars, route, ledgerVars, bankLines, reportVars, otherVars>>
    /\ SaveTransactions

(***************************************************************************)
(* SpecLedger: the Ledger's running balance over every store content       *)
(***************************************************************************)
LedgerTxs ==
    [id : {0}, date : TxDates, amount : 1..MaxAmount, type : Types,
     accountCode : {"A"}, status : {TransactionStatus.PENDING}]

InitLedger == BaseInit
NextLedger == AddTransaction(LedgerTxs)
SpecLedger == InitLedger /\ [][NextLedger]_vars

\* C1: for every non-empty transaction collection the running balance of the
\* last row of the date-sorted Ledger sequence equals getBalance() of the
\* same collection.
C1_FinalRunningBalanceIsGetBalance ==
    transactions # <<>> =>
        LET rows == transactionsWithBalance(transactions)
        IN  /\ Len(rows) = Len(transactions)
            /\ rows[Len(rows)].runningBalance = getBalance(transactions)

\* a store of two transactions that the sort reorders, one of them an
\* advance or a transfer
C1_Witness ==
    /\ Len(transactions) = 2
    /\ sortByDate(transactions) # transactions
    /\ \E i \in 1..2 : transactions[i].type \in {"ADV", "TRF"}
    /\ \E i \in 1..2 : transactions[i].type = "INCOME"

(***************************************************************************)
(* SpecTrial: the trial balance over every store content and chart         *)
(***************************************************************************)
\* charts the Settings page can produce: at most two rows out of a postable
\* account A, a group title carrying the code A, and a postable account B
ChartRows == {Account("A", FALSE), Account("A", TRUE), Account("B", FALSE)}
Charts == {<<>>} \cup {<<r>> : r \in ChartRows}
              \cup {<<r, q>> : r \in ChartRows, q \in ChartRows}

TrialTxs ==
    [id : {0}, date : {Today}, amount : 1..MaxAmount, type : Types,
     accountCode : {"A", "B"}, status : {TransactionStatus.PENDING}]

InitTrial ==
    /\ transactions = <<>>
    /\ chartOfAccounts \in Charts
    /\ budget = MOCK_BUDGET
    /\ nextId = 1
    /\ route = "reports"
    /\ isModalOpen = FALSE
    /\ editingId = Null
    /\ formData = initialFormState
    /\ deletedTx = Null
    /\ showUndoToast = FALSE
    /\ bankLines = <<>>
    /\ dateRange = initialDateRange
    /\ bankStatementBalance = 0
    /\ tzOffset = 0
    /\ everReconciled = {}
    /\ RestInit
NextTrial == AddTransaction(TrialTxs)
SpecTrial == InitTrial /\ [][NextTrial]_vars

\* sum of the amounts of the transactions at the positions I
RECURSIVE AmountAt(_, _)
AmountAt(txs, I) ==
    IF I = {} THEN 0
    ELSE LET i == CHOOSE j \in I : TRUE
         IN txs[i].amount + AmountAt(txs, I \ {i})

\* C2: for every transaction collection and every chart of accounts the
\* trial balance's totalDebits minus totalCredits equals -getBalance().
C2_TrialBalanceNetIsMinusBalance ==
    LET tb == trialBalanceData(transactions, chartOfAccounts)
    IN tb.totalDebits - tb.totalCredits = -getBalance(transactions)

\* C8: every trial balance row has debit >= 0, credit >= 0 and at most one of
\* them non-zero; a non-header row shows the excess of its account's
\* outflow-type total over its inflow-type total as debit, otherwise the
\* excess the other way as credit; a header row shows 0 and 0.
C8_TrialBalanceRows ==
    LET tb == trialBalanceData(transactions, chartOfAccounts)
    IN /\ Len(tb.items) = Len(chartOfAccounts)
       /\ \A i \in 1..Len(chartOfAccounts) :
            LET row == tb.items[i]
                acc == chartOfAccounts[i]
                mine == {j \in 1..Len(transactions) :
                            transactions[j].accountCode = acc.code}
                out == AmountAt(transactions,
                          {j \in mine : transactions[j].type
                                           \in {"EXPENSE", "ADV", "TRF"}})
                in == AmountAt(transactions,
                          {j \in mine : transactions[j].type = "INCOME"})
            IN /\ row.code = acc.code
               /\ row.debit >= 0 /\ row.credit >= 0
               /\ ~(row.debit # 0 /\ row.credit # 0)
               /\ acc.isHeader => row.debit = 0 /\ row.credit = 0
               /\ ~acc.isHeader /\ out > in =>
                      row.debit = out - in /\ row.credit = 0
               /\ ~acc.isHeader /\ ~(out > in) =>
                      row.credit = in - out /\ row.debit = 0

\* an account with both inflows and outflows, and a header row whose code is
\* referenced by a transaction
C8_Witness ==
    LET tb == trialBalanceData(transactions, chartOfAccounts)
    IN /\ Len(transactions) = 2
       /\ Len(chartOfAccounts) = 2
       /\ chartOfAccounts[1].isHeader /\ ~chartOfAccounts[2].isHeader
       /\ \E j \in 1..2 : transactions[j].accountCode = chartOfAccounts[1].code
       /\ transactions[1].type = "INCOME" /\ transactions[2].type = "ADV"
       /\ transactions[1].accountCode = chartOfAccounts[2].code
       /\ transactions[2].accountCode = chartOfAccounts[2].code
       /\ tb.items[2].debit > 0

(***************************************************************************)
(* SpecBankRec: the bank reconciliation over every store content, as-of    *)
(* date and statement balance                                              *)
(***************************************************************************)
RecDates == {20240110, 20240201}

RecTxs ==
    [id : {0}, date : RecDates, amount : 1..MaxAmount, type : Types,
     accountCode : {"A"}, status : Statuses]

\* Reports: the as-of date input
SetDateRangeEnd(d) ==
    /\ route = "reports"
    /\ dateRange' = [dateRange EXCEPT !.end = d]
    /\ UNCHANGED <<transactions, storeVars, nextId, route, ledgerVars,
                   bankLines, bankStatementBalance, otherVars, everReconciled>>
    /\ UNCHANGED storage

\* Reports: the statement balance input
SetBankStatementBalance(v) ==
    /\ route = "reports"
    /\ bankStatementBalance' = v
    /\ UNCHANGED <<transactions, storeVars, nextId, route, ledgerVars,
                   bankLines, dateRange, otherVars, everReconciled>>
    /\ UNCHANGED storage

InitBankRec ==
    /\ transactions = <<>>
    /\ chartOfAccounts = DEFAULT_CHART_OF_ACCOUNTS
    /\ budget = MOCK_BUDGET
    /\ nextId = 1
    /\ route = "reports"
    /\ isModalOpen = FALSE
    /\ editingId = Null
    /\ formData = initialFormState
    /\ deletedTx = Null
    /\ showUndoToast = FALSE
    /\ bankLines = <<>>
    /\ dateRange = initialDateRange
    /\ bankStatementBalance = 0
    /\ tzOffset = 0
    /\ everReconciled = {}
    /\ RestInit
NextBankRec ==
    \/ AddTransaction(RecTxs)
    \/ \E d \in RecDates : SetDateRangeEnd(d)
    \/ \E v \in -1..1 : SetBankStatementBalance(v)
SpecBankRec == InitBankRec /\ [][NextBankRec]_vars

IdsOf(txs) == {txs[i].id : i \in 1..Len(txs)}

\* C6: projectedBankBalance = ledgerBalance + (sum of unpresented cheques)
\* - (sum of outstanding deposits), difference = projectedBankBalance -
\* statementBalance, and whenever the statement balance equals the projected
\* balance the difference is 0 and the report is shown as balanced.
C6_ProjectedBalanceAndDifference ==
    LET r == bankRecData(transactions, dateRange.end, bankStatementBalance)
        rel == {i \in 1..Len(transactions) :
                   transactions[i].date <= dateRange.end}
        inflows == {i \in rel : transactions[i].type = "INCOME"}
        open == {i \in rel : transactions[i].status # "RECONCILED"}
        ledger == AmountAt(transactions, inflows)
                    - AmountAt(transactions, rel \ inflows)
        cheques == AmountAt(transactions, open \ inflows)
        deposits == AmountAt(transactions, open \cap inflows)
    IN /\ r.ledgerBalance = ledger
       /\ r.totalUnpresented = cheques
       /\ r.totalOutstanding = deposits
       /\ r.projectedBankBalance = ledger + cheques - deposits
       /\ r.difference = r.projectedBankBalance - bankStatementBalance
       /\ isBalanced(r.difference) <=> r.difference = 0
       /\ bankStatementBalance = r.projectedBankBalance =>
              r.difference = 0 /\ isBalanced(r.difference)

\* the statement balance typed in equals a non-zero projected balance while
\* an unreconciled item is listed
C6_Witness ==
    LET r == bankRecData(transactions, dateRange.end, bankStatementBalance)
    IN /\ r.projectedBankBalance # 0
       /\ r.projectedBankBalance # r.ledgerBalance
       /\ bankStatementBalance = r.projectedBankBalance
       /\ r.unreconciled # <<>>

\* C7: the reconciled and unreconciled lists are disjoint and together hold
\* exactly the transactions dated on or before the as-of date; the
\* unpresented cheques (non-inflow types) and the outstanding deposits
\* (inflow types) are disjoint and together hold exactly the unreconciled
\* list.
C7_ReconciliationPartitions ==
    LET r == bankRecData(transactions, dateRange.end, bankStatementBalance)
        rel == {transactions[i].id : i \in {j \in 1..Len(transactions) :
                   transactions[j].date <= dateRange.end}}
    IN /\ IdsOf(r.reconciled) \cap IdsOf(r.unreconciled) = {}
       /\ IdsOf(r.reconciled) \cup IdsOf(r.unreconciled) = rel
       /\ Len(r.reconciled) + Len(r.unreconciled) = Cardinality(rel)
       /\ \A i \in 1..Len(r.reconciled) : r.reconciled[i].status = "RECONCILED"
       /\ \A i \in 1..Len(r.unreconciled) :
              r.unreconciled[i].status \in {"PENDING", "CLEARED"}
       /\ IdsOf(r.unpresentedCheques) \cap IdsOf(r.outstandingDeposits) = {}
       /\ IdsOf(r.unpresentedCheques) \cup IdsOf(r.outstandingDeposits)
              = IdsOf(r.unreconciled)
       /\ Len(r.unpresentedCheques) + Len(r.outstandingDeposits)
              = Len(r.unreconciled)
       /\ \A i \in 1..Len(r.unpresentedCheques) :
              r.unpresentedCheques[i].type \in {"EXPENSE", "ADV", "TRF"}
       /\ \A i \in 1..Len(r.outstandingDeposits) :
              r.outstandingDeposits[i].type = "INCOME"

\* a cleared cheque is unpresented, a reconciled transaction is listed as
\* reconciled
C7_Witness ==
    LET r == bankRecData(transactions, dateRange.end, bankStatementBalance)
    IN /\ Len(r.reconciled) = 1
       /\ Len(r.unpresentedCheques) = 1
       /\ r.unpresentedCheques[1].status = "CLEARED"

(***************************************************************************)
(* SpecMonths: monthDiff over date ranges and time zones                   *)
(***************************************************************************)
RangeDates == {20231201, 20231231, 20240101, 20240131, 20240229, 20240301}
TimeZones == {-1, 0, 1}
Budgets == {MOCK_BUDGET, <<[code |-> "B", monthlyBudget |-> 2],
                           [code |-> "A", monthlyBudget |-> 1]>>}

\* Reports: the start date input
SetDateRangeStart(d) ==
    /\ route = "reports"
    /\ dateRange' = [dateRange EXCEPT !.start = d]
    /\ UNCHANGED <<transactions, storeVars, nextId, route, ledgerVars,
                   bankLines, bankStatementBalance, otherVars, everReconciled>>
    /\ UNCHANGED storage

InitMonths ==
    /\ transactions = <<>>
    /\ chartOfAccounts = DEFAULT_CHART_OF_ACCOUNTS
    /\ budget \in Budgets
    /\ nextId = 1
    /\ route = "reports"
    /\ isModalOpen = FALSE
    /\ editingId = Null
    /\ formData = initialFormState
    /\ deletedTx = Null
    /\ showUndoToast = FALSE
    /\ bankLines = <<>>
    /\ tzOffset \in TimeZones
    /\ dateRange = initialDateRangeFor(tzOffset)
    /\ bankStatementBalance = 0
    /\ everReconciled = {}
    /\ RestInit
NextMonths ==
    \/ \E d \in RangeDates : SetDateRangeStart(d)
    \/ \E d \in RangeDates : SetDateRangeEnd(d)
SpecMonths == InitMonths /\ [][NextMonths]_vars

MonthIndex(d) == YearOf(d) * 12 + MonthOf(d)

\* C9: monthsInRange is the inclusive count of calendar months from the
\* start date's month to the end date's month and never below 1; for a range
\* whose start and end lie in the same calendar month it is 1 and every
\* row's totalBudget equals that account's monthlyBudget.
C9_MonthsInRange ==
    LET m == monthDiff(dateRange, tzOffset)
        rows == budgetVsActualsData(transactions, chartOfAccounts, budget,
                                    dateRange, tzOffset)
    IN /\ m >= 1
       /\ m = Max(MonthIndex(dateRange.end) - MonthIndex(dateRange.start) + 1, 1)
       /\ MonthIndex(dateRange.start) = MonthIndex(dateRange.end) =>
              /\ m = 1
              /\ \A i \in 1..Len(rows) : rows[i].budget = rows[i].monthlyBudget

(***************************************************************************)
(* SpecBudget: budget vs actuals over store contents, charts, budgets and  *)
(* date ranges                                                             *)
(***************************************************************************)
BudgetDates == {20240105, 20240201}
BudgetCharts == {<<Account("A", FALSE)>>,
                 <<Account("A", TRUE), Account("B", FALSE)>>,
                 <<Account("A", FALSE), Account("B", FALSE)>>,
                 <<Account("A", FALSE), Account("A", FALSE)>>}

BudgetTxs ==
    [id : {0}, date : BudgetDates, amount : 1..MaxAmount, type : Types,
     accountCode : {"A", "B"}, status : {TransactionStatus.PENDING}]

InitBudget ==
    /\ transactions = <<>>
    /\ chartOfAccounts \in BudgetCharts
    /\ budget \in Budgets
    /\ nextId = 1
    /\ route = "reports"
    /\ isModalOpen = FALSE
    /\ editingId = Null
    /\ formData = initialFormState
    /\ deletedTx = Null
    /\ showUndoToast = FALSE
    /\ bankLines = <<>>
    /\ tzOffset = 0
    /\ dateRange = initialDateRangeFor(tzOffset)
    /\ bankStatementBalance = 0
    /\ everReconciled = {}
    /\ RestInit
NextBudget ==
    \/ AddTransaction(BudgetTxs)
    \/ SetDateRangeStart(20240201)
    \/ SetDateRangeEnd(20240201)
SpecBudget == InitBudget /\ [][NextBudget]_vars

\* number of positions of s holding a row with code c and actual a
CountRows(s, c, a) ==
    Cardinality({i \in 1..Len(s) : s[i].code = c /\ s[i].actual = a})

\* C10: budgetVsActuals has exactly one row per non-header chart entry, with
\* actual = sum of the amounts of the transactions with the row's code, type
\* EXPENSE and date in [start, end]; variance = totalBudget - actual;
\* variancePercent = variance / totalBudget * 100 when totalBudget > 0 and 0
\* otherwise.  No other transaction contributes to any row.
C10_BudgetVsActualsRows ==
    LET rows == budgetVsActualsData(transactions, chartOfAccounts, budget,
                                    dateRange, tzOffset)
        postable == {i \in 1..Len(chartOfAccounts) : ~chartOfAccounts[i].isHeader}
        spent(c) == AmountAt(transactions,
                        {j \in 1..Len(transactions) :
                            /\ transactions[j].accountCode = c
                            /\ transactions[j].type = "EXPENSE"
                            /\ transactions[j].date >= dateRange.start
                            /\ transactions[j].date <= dateRange.end})
    IN /\ Len(rows) = Cardinality(postable)
       /\ \A i \in 1..Len(rows) :
            /\ rows[i].actual = spent(rows[i].code)
            /\ CountRows(rows, rows[i].code, rows[i].actual)
                 = Cardinality({k \in postable :
                                   chartOfAccounts[k].code = rows[i].code})
            /\ rows[i].variance = rows[i].budget - rows[i].actual
            /\ rows[i].budget > 0 =>
                   /\ rows[i].variancePercent.num = rows[i].variance * 100
                   /\ rows[i].variancePercent.den = rows[i].budget
            /\ rows[i].budget <= 0 => rows[i].variancePercent.num = 0
       /\ \A k \in postable :
            \E i \in 1..Len(rows) : rows[i].code = chartOfAccounts[k].code

\* a budgeted account with an expense inside the range next to an advance,
\* an expense dated after the range, and a transaction on a header's code
C10_Witness ==
    LET rows == budgetVsActualsData(transactions, chartOfAccounts, budget,
                                    dateRange, tzOffset)
    IN /\ Len(transactions) = 2
       /\ Len(rows) = 1
       /\ chartOfAccounts[1].isHeader
       /\ transactions[1].type = "EXPENSE" /\ transactions[1].accountCode = "A"
       /\ transactions[2].type = "EXPENSE" /\ transactions[2].accountCode = "B"
       /\ transactions[2].date = dateRange.end
       /\ rows[1].actual = transactions[2].amount
       /\ rows[1].budget > 0 /\ rows[1].variance # rows[1].budget

(***************************************************************************)
(* Spec: the pages' handlers acting on the store                           *)
(***************************************************************************)
MaxId == MaxTx + 1      \* ids handed out before creation stops

\* a store the load effect can leave behind: nothing persisted, or one
\* cleared expense
InitialStores ==
    {<<>>,
     <<[id |-> 1, date |-> Today, amount |-> 1, type |-> TransactionType.EXPENSE,
        accountCode |-> "A", status |-> TransactionStatus.CLEARED]>>}

Init ==
    /\ transactions \in InitialStores
    /\ chartOfAccounts = DEFAULT_CHART_OF_ACCOUNTS
    /\ budget = MOCK_BUDGET
    /\ nextId = Len(transactions) + 1
    /\ route = "ledger"
    /\ isModalOpen = FALSE
    /\ editingId = Null
    /\ formData = initialFormState
    /\ deletedTx = Null
    /\ showUndoToast = FALSE
    /\ bankLines = <<>>
    /\ dateRange = initialDateRange
    /\ bankStatementBalance = 0
    /\ tzOffset = 0
    /\ everReconciled = {}
    /\ RestInit

History == everReconciled' = everReconciled \cup ReconciledIds(transactions')

\* The router shows another page: the page left is unmounted and the page
\* entered is mounted with its initial state.
Navigate(r) ==
    /\ r # route
    /\ route' = r
    /\ isModalOpen' = FALSE
    /\ editingId' = Null
    /\ formData' = initialFormState
    /\ deletedTx' = Null
    /\ showUndoToast' = FALSE
    /\ bankLines' = <<>>
    /\ isEditing' = FALSE
    /\ editCode' = Null
    /\ coaForm' = initialCoaForm
    /\ isSuggesting' = FALSE
    /\ isParsing' = FALSE
    /\ sinceDelete' = Null
    \* a call in flight outlives the page that made it; what it sets later is
    \* state of a component no longer mounted
    /\ suggestCall' = IF suggestCall = "pending" THEN "orphan" ELSE suggestCall
    /\ parseCall' = IF parseCall # Null
                    THEN <<[parseCall[1] EXCEPT !.mounted = FALSE]>>
                    ELSE parseCall
    /\ timeouts' = <<>>
    /\ UNCHANGED <<transactions, storeVars, nextId, reportVars, tzOffset, lastEvent,
                   everReconciled, apiKey, mountStep, queued>>
    /\ UNCHANGED storage

---------------------------------------------------------------------------
(* Ledger.tsx *)

\* "+ New Transaction"
OpenNewModal ==
    /\ route = "ledger" /\ ~isModalOpen
    /\ isModalOpen' = TRUE
    /\ UNCHANGED <<transactions, storeVars, nextId, route, editingId, formData,
                   deletedTx, showUndoToast, bankLines, reportVars, otherVars,
                   everReconciled>>
    /\ UNCHANGED storage

formOf(tx) ==
    [date |-> tx.date, type |-> tx.type, status |-> tx.status,
     accountCode |-> tx.accountCode, amount |-> tx.amount]

handleEdit(i) ==
    /\ route = "ledger" /\ ~isModalOpen
    /\ i \in 1..Len(transactions)
    /\ formData' = formOf(transactions[i])
    /\ editingId' = <<transactions[i].id>>
    /\ isModalOpen' = TRUE
    /\ UNCHANGED <<transactions, storeVars, nextId, route, deletedTx,
                   showUndoToast, bankLines, reportVars, otherVars,
                   everReconciled>>
    /\ UNCHANGED storage

\* the inputs of the form: the amount box and the category select (the form
\* has no input for the status)
FormInputs == {<<"amount", 1>>, <<"accountCode", "A">>}

handleInputChange(name, value) ==
    /\ route = "ledger" /\ isModalOpen
    /\ formData' = [formData EXCEPT ![name] = value]
    /\ UNCHANGED <<transactions, storeVars, nextId, route, isModalOpen,
                   editingId, deletedTx, showUndoToast, bankLines, reportVars,
                   otherVars, everReconciled>>
    /\ UNCHANGED storage

formAfterCloseMutant(form) == form

\* closeModal: setFormData(initialFormState)
formAfterClose(form) == initialFormState

closeModal ==
    /\ route = "ledger" /\ isModalOpen
    /\ isModalOpen' = FALSE
    /\ editingId' = Null
    /\ formData' = formAfterClose(formData)
    /\ UNCHANGED <<transactions, storeVars, nextId, route, deletedTx,
                   showUndoToast, bankLines, reportVars, otherVars,
                   everReconciled>>
    /\ UNCHANGED storage

transactionOfFormMutant(id, form) ==
    [id |-> id, date |-> form.date, amount |-> form.amount, type |-> form.type,
     accountCode |-> form.accountCode, status |-> initialFormState.status]

\* the Transaction object handleSubmit builds from the form (updatedTx and
\* newTx are built alike)
transactionOfForm(id, form) ==
    [id |-> id, date |-> form.date, amount |-> form.amount, type |-> form.type,
     accountCode |-> form.accountCode, status |-> form.status]

handleSubmit ==
    /\ route = "ledger" /\ isModalOpen
    /\ formData.accountCode # ""            \* the select is required
    /\ IF editingId # Null
       THEN /\ transactions' = updateTransaction(transactions,
                                   transactionOfForm(editingId[1], formData))
            /\ nextId' = nextId
       ELSE /\ nextId <= MaxId /\ Len(transactions) < MaxTx
            /\ transactions' = addTransaction(transactions,
                                   transactionOfForm(nextId, formData))
            /\ nextId' = nextId + 1
    /\ isModalOpen' = FALSE
    /\ editingId' = Null
    /\ formData' = formAfterClose(formData)
    /\ History
    /\ UNCHANGED <<storeVars, route, deletedTx, showUndoToast, bankLines,
                   reportVars, otherVars>>
    /\ SaveTransactions

\* handleDelete up to its setTimeout
deleteAndShowToast(id) ==
    /\ route = "ledger" /\ ~isModalOpen
    /\ \E i \in 1..Len(transactions) :
          /\ StringOf(transactions[i].id) = StringOf(id)
          /\ \A j \in 1..(i - 1) : StringOf(transactions[j].id) # StringOf(id)
          /\ deletedTx' = <<transactions[i]>>
    /\ transactions' = deleteTransaction(transactions, id)
    /\ showUndoToast' = TRUE
    /\ History
    /\ UNCHANGED <<storeVars, nextId, route, isModalOpen, editingId, formData,
                   bankLines, reportVars, tzOffset, settingsVars, lastEvent,
                   apiKey, isSuggesting, suggestCall, isParsing, parseCall,
                   mountStep, queued>>
    /\ SaveTransactions

\* handleDelete where time is not counted: its timeout is a HideUndoToast
\* step that may come at any later moment
handleDelete(id) ==
    /\ deleteAndShowToast(id)
    /\ UNCHANGED <<timeouts, sinceDelete>>

handleUndoMutant ==
    /\ route = "ledger" /\ ~isModalOpen /\ showUndoToast
    /\ deletedTx # Null
    /\ transactions' = addTransaction(transactions, deletedTx[1])
    /\ History
    /\ SaveTransactions
    /\ UNCHANGED <<storeVars, nextId, route, ledgerVars, bankLines, reportVars,
                   otherVars>>

handleUndo ==
    /\ route = "ledger" /\ ~isModalOpen /\ showUndoToast
    /\ deletedTx # Null
    /\ transactions' = addTransaction(transactions, deletedTx[1])
    /\ deletedTx' = Null
    /\ showUndoToast' = FALSE
    /\ History
    /\ UNCHANGED <<storeVars, nextId, route, isModalOpen, editingId, formData,
                   bankLines, reportVars, otherVars>>
    /\ SaveTransactions

\* the toast's close button, or the 5 s timer of a delete
HideUndoToast ==
    /\ route = "ledger" /\ showUndoToast
    /\ showUndoToast' = FALSE
    /\ UNCHANGED <<transactions, storeVars, nextId, route, isModalOpen,
                   editingId, formData, deletedTx, bankLines, reportVars,
                   otherVars, everReconciled>>
    /\ UNCHANGED storage

---------------------------------------------------------------------------
(* Reconciliation.tsx *)

BankFileSizes == {1, 2}     \* data lines of the bank statements uploaded

\* fallback parse of a bank file of n data lines: ids bank-man-0 ..
\* (a credit of 1 first, then debits of 1)
bankFile(n) ==
    [i \in 1..n |-> [id |-> i - 1, date |-> Today,
                     amount |-> IF i = 1 THEN 1 ELSE -1]]

handleFileUploadBank(n) ==
    /\ route = "reconciliation"
    /\ bankLines' = bankFile(n)
    /\ UNCHANGED <<transactions, storeVars, nextId, route, ledgerVars,
                   reportVars, otherVars, everReconciled>>
    /\ UNCHANGED storage

ClearBankLines ==
    /\ route = "reconciliation" /\ bankLines # <<>>
    /\ bankLines' = <<>>
    /\ UNCHANGED <<transactions, storeVars, nextId, route, ledgerVars,
                   reportVars, otherVars, everReconciled>>
    /\ UNCHANGED storage

\* rows of a ledger CSV: the number of columns and the amount column as
\* parseFloat reads it (a row of four columns has no amount column)
LedgerRows == {[ncols |-> 6, amount |-> -1], [ncols |-> 3, amount |-> 0]}
LedgerFiles == UNION {[1..n -> LedgerRows] : n \in 1..MaxTx}

importedTransaction(row, id) ==
    [id |-> id, date |-> Today, amount |-> Abs(row.amount),
     type |-> IF row.amount >= 0 THEN TransactionType.INCOME
                                 ELSE TransactionType.EXPENSE,
     accountCode |-> "A", status |-> TransactionStatus.PENDING]

\* the forEach over the data rows: [store, next id] after the rows
RECURSIVE importRows(_, _, _)
importRowsMutant(rows, txs, id) ==
    LET v == SelectSeq(rows, LAMBDA r : r.ncols >= 4)
    IN IF v = <<>> THEN [txs |-> txs, id |-> id]
       ELSE [txs |-> addTransaction(txs, importedTransaction(v[Len(v)],
                                                              id + Len(v) - 1)),
             id |-> id + Len(v)]

importRows(rows, txs, id) ==
    IF rows = <<>> THEN [txs |-> txs, id |-> id]
    ELSE IF Head(rows).ncols >= 4
         THEN importRows(Tail(rows),
                         addTransaction(txs, importedTransaction(Head(rows), id)),
                         id + 1)
         ELSE importRows(Tail(rows), txs, id)

handleFileUploadLedger(rows) ==
    /\ route = "reconciliation"
    /\ LET r == importRows(rows, transactions, nextId)
       IN /\ r.id - 1 <= MaxId /\ Len(r.txs) <= MaxTx
          /\ transactions' = r.txs
          /\ nextId' = r.id
    /\ History
    /\ UNCHANGED <<storeVars, route, ledgerVars, bankLines, reportVars, otherVars>>
    /\ SaveTransactions

\* line 12: the transactions the Match buttons are drawn from
unreconciledLedgerMutant(txs) == txs

unreconciledLedger(txs) ==
    SelectSeq(txs, LAMBDA t : t.status # TransactionStatus.RECONCILED)

\* the transactions a bank line shows a Match button for: 0.01 is one minor
\* unit
matchCandidates(txs, line) ==
    SelectSeq(unreconciledLedger(txs),
              LAMBDA t : Abs(t.amount - Abs(line.amount)) < 1)

handleMatch(ledgerId, bankId) ==
    /\ route = "reconciliation"
    /\ LET found == SelectSeq(transactions, LAMBDA t : t.id = ledgerId)
       IN IF found # <<>>
          THEN /\ transactions' =
                     updateTransaction(transactions,
                         [Head(found) EXCEPT !.status = TransactionStatus.RECONCILED])
               /\ bankLines' = SelectSeq(bankLines, LAMBDA b : b.id # bankId)
          ELSE UNCHANGED <<transactions, bankLines>>
    /\ History
    /\ UNCHANGED <<storeVars, nextId, route, ledgerVars, reportVars, otherVars>>
    /\ SaveTransactions

Next ==
    \/ \E r \in {"ledger", "reconciliation"} : Navigate(r)
    \/ OpenNewModal
    \/ \E i \in 1..(MaxTx + 1) : handleEdit(i)
    \/ \E in \in FormInputs : handleInputChange(in[1], in[2])
    \/ closeModal
    \/ handleSubmit
    \/ \E id \in 1..MaxId : handleDelete(id)
    \/ handleUndo
    \/ HideUndoToast
    \/ \E n \in BankFileSizes : handleFileUploadBank(n)
    \/ ClearBankLines
    \/ \E rows \in LedgerFiles : handleFileUploadLedger(rows)
    \/ \E l \in 1..MaxId, b \in 0..1 : handleMatch(l, b)

Spec == Init /\ [][Next]_vars

StatusOf(txs, id) ==
    LET hits == SelectSeq(txs, LAMBDA t : t.id = id)
    IN IF hits = <<>> THEN Null ELSE <<Head(hits).status>>

\* C3: a transaction that has ever had status RECONCILED and is in the store
\* has status RECONCILED, whatever handlers of the pages ran since (edit,
\* delete followed by Undo, import, match, navigation).
C3_ReconciledIsAbsorbing ==
    \A i \in 1..Len(transactions) :
        transactions[i].id \in everReconciled
            => transactions[i].status = TransactionStatus.RECONCILED

\* a reconciled transaction that was deleted and restored by Undo: it heads
\* the store before a younger one
C3_Witness ==
    /\ Len(transactions) >= 2
    /\ transactions[1].id < transactions[2].id
    /\ transactions[1].status = TransactionStatus.RECONCILED
    /\ transactions[1].id \in everReconciled
    /\ deletedTx = Null

\* C4: only a handleMatch step turns a stored transaction's status from
\* PENDING or CLEARED into RECONCILED; a transaction created in a step (by
\* the Ledger form or the ledger CSV import) is not RECONCILED; a Ledger edit
\* leaves the status of every stored transaction as it was.
C4_OnlyMatchReconciles ==
    [][ /\ \A id \in 1..MaxId :
              (/\ StatusOf(transactions, id) # Null
               /\ StatusOf(transactions, id) # <<TransactionStatus.RECONCILED>>
               /\ StatusOf(transactions', id) = <<TransactionStatus.RECONCILED>>)
                  => \E b \in 0..1 : handleMatch(id, b)
        /\ \A id \in nextId..(nextId' - 1) :
              StatusOf(transactions', id) # <<TransactionStatus.RECONCILED>>
        /\ (handleSubmit /\ editingId # Null)
              => \A id \in 1..MaxId :
                    StatusOf(transactions', id) = StatusOf(transactions, id)
      ]_vars

\* a transaction the import or the form created has been matched, next to one
\* created that has not
C4_Witness ==
    \E i, j \in 1..Len(transactions) :
        /\ transactions[i].id > 1 /\ transactions[j].id > 1
        /\ transactions[i].status = TransactionStatus.RECONCILED
        /\ transactions[j].status = TransactionStatus.PENDING
        /\ transactions[j].amount = 0

\* C5: handleMatch(ledgerId, bankId) with ledgerId in the store sets that
\* transaction's status to RECONCILED and changes no other field of it and no
\* other transaction, removes the bank lines with id bankId and no other, and
\* leaves the chart and the budget alone; with ledgerId not in the store the
\* store and the bank lines stay as they are.
C5_MatchFrame ==
    [][ \A l \in 1..MaxId, b \in 0..1 :
          handleMatch(l, b) =>
             /\ chartOfAccounts' = chartOfAccounts /\ budget' = budget
             /\ IF \E i \in 1..Len(transactions) : transactions[i].id = l
                THEN /\ Len(transactions') = Len(transactions)
                     /\ \A i \in 1..Len(transactions) :
                           transactions'[i] =
                              IF transactions[i].id = l
                              THEN [transactions[i] EXCEPT
                                       !.status = TransactionStatus.RECONCILED]
                              ELSE transactions[i]
                     /\ \A k \in 0..1 :
                           (\E i \in 1..Len(bankLines') : bankLines'[i].id = k)
                              <=> (k # b /\ \E i \in 1..Len(bankLines) :
                                                bankLines[i].id = k)
                     /\ Len(bankLines') <= Len(bankLines)
                ELSE transactions' = transactions /\ bankLines' = bankLines
      ]_vars

\* bank line 0 has been matched to one transaction while another transaction
\* and bank line 1 are left
C5_Witness ==
    /\ route = "reconciliation"
    /\ Len(bankLines) = 1 /\ bankLines[1].id = 1
    /\ Len(transactions) >= 2
    /\ \E i, j \in 1..Len(transactions) :
          /\ transactions[i].status = TransactionStatus.RECONCILED
          /\ transactions[j].status # TransactionStatus.RECONCILED

(***************************************************************************)
(* SpecStore: the transaction methods of the context, called with any      *)
(* argument                                                                *)
(***************************************************************************)
RawIds == {-2, -1, 1, 2}       \* the numbers 1, 2 and the strings "1", "2"

StoreTxs ==
    [id : RawIds, date : {Today}, amount : 1..MaxAmount,
     type : {TransactionType.EXPENSE}, accountCode : {"A"},
     status : {TransactionStatus.PENDING}]

\* collections handed to overwriteTransactions: up to two records of amount
\* 1 with any ids
Stores ==
    LET txs == {t \in StoreTxs : t.amount = 1}
    IN UNION {[1..n -> txs] : n \in 0..2}

Event(op, arg) ==
    [op |-> op, arg |-> arg,
     again |-> lastEvent.op = op /\ lastEvent.arg = arg]

storeFrame ==
    /\ History
    /\ SaveTransactions
    /\ UNCHANGED <<storeVars, nextId, route, ledgerVars, bankLines, reportVars,
                   tzOffset, settingsVars, asyncVars>>

CallAddTransaction(t) ==
    /\ Len(transactions) < MaxTx
    /\ transactions' = addTransaction(transactions, t)
    /\ lastEvent' = Event("addTransaction", <<t>>)
    /\ storeFrame

CallDeleteTransaction(id) ==
    /\ transactions' = deleteTransaction(transactions, id)
    /\ lastEvent' = Event("deleteTransaction", <<id>>)
    /\ storeFrame

CallUpdateTransaction(t) ==
    /\ transactions' = updateTransaction(transactions, t)
    /\ lastEvent' = Event("updateTransaction", <<t>>)
    /\ storeFrame

overwriteTransactions(txs) ==
    /\ transactions' = txs
    /\ lastEvent' = Event("overwriteTransactions", <<>>)
    /\ storeFrame

InitStore == BaseInit

NextStore ==
    \/ \E t \in StoreTxs : CallAddTransaction(t)
    \/ \E id \in RawIds : CallDeleteTransaction(id)
    \/ \E t \in StoreTxs : CallUpdateTransaction(t)
    \/ \E txs \in Stores : overwriteTransactions(txs)

SpecStore == InitStore /\ [][NextStore]_vars

\* the positions of txs whose normalised id is not that of id
KeptPositions(txs, id) ==
    {i \in 1..Len(txs) : StringOf(txs[i].id) # StringOf(id)}

\* s is txs restricted to the positions in P, in the order of txs
IsRestriction(s, txs, P) ==
    /\ Len(s) = Cardinality(P)
    /\ \A i \in P : s[Cardinality({j \in P : j <= i})] = txs[i]

\* C11: deleteTransaction(id) removes every transaction whose normalised id
\* equals the normalised argument and keeps the others in their order; a
\* second call with the same id leaves the collection as the first left it.
C11_DeleteRemovesAndIsIdempotent ==
    [][ \A id \in RawIds :
          CallDeleteTransaction(id) =>
             /\ IsRestriction(transactions', transactions,
                              KeptPositions(transactions, id))
             /\ deleteTransaction(transactions', id) = transactions'
             /\ lastEvent'.again => transactions' = transactions
      ]_vars

\* the second of two calls deleteTransaction("1") in a row, with a record
\* of another id (the number 2) left in the store
C11_Witness ==
    /\ lastEvent.op = "deleteTransaction" /\ lastEvent.again
    /\ lastEvent.arg = <<1>>
    /\ Len(transactions) = 1 /\ transactions[1].id = -2

\* C12: no two transactions of the store have the same id, whatever Ledger
\* form adds, edits, deletes, Undos, ledger CSV imports and matches ran on
\* the loaded collection.
C12_IdsUnique ==
    \A i, j \in 1..Len(transactions) :
        i # j => StringOf(transactions[i].id) # StringOf(transactions[j].id)

\* every id has been handed out, a deleted transaction has been restored by
\* Undo in front of a younger one, and a transaction made by the form is held
C12_Witness ==
    /\ nextId = MaxId + 1
    /\ Len(transactions) >= 2
    /\ transactions[1].id < transactions[2].id
    /\ \E i \in 1..Len(transactions) : transactions[i].amount = 0

(***************************************************************************)
(* SpecLoad: the load effect of FinanceProvider over persisted lists       *)
(***************************************************************************)
\* ids of persisted records: absent (0), the number 1, the strings "1", "2"
PersistedIds == {0, -1, 1, 2}
FirstFreshId == 3       \* crypto.randomUUID() differs from every persisted id

PersistedTxs ==
    [id : PersistedIds, date : {Today}, amount : 1..MaxAmount,
     type : {TransactionType.EXPENSE}, accountCode : {"A"},
     status : {TransactionStatus.PENDING}]

PersistedLists == UNION {[1..n -> PersistedTxs] : n \in 0..(MaxTx + 1)}

loadStepMutant(acc, tx, fresh) ==
    LET safeId == IF tx.id # 0 THEN StringOf(tx.id) ELSE fresh
    IN IF \E i \in 1..Len(acc) : acc[i].id = safeId
       THEN acc
       ELSE Append(acc, [tx EXCEPT !.id = safeId])

\* uniqueMap.set(safeId, {...tx, id: safeId}): a key already in the Map keeps
\* its place and takes the new value
loadStep(acc, tx, fresh) ==
    LET safeId == IF tx.id # 0 THEN StringOf(tx.id) ELSE fresh
        rec == [tx EXCEPT !.id = safeId]
    IN IF \E i \in 1..Len(acc) : acc[i].id = safeId
       THEN [i \in 1..Len(acc) |-> IF acc[i].id = safeId THEN rec ELSE acc[i]]
       ELSE Append(acc, rec)

\* parsed.forEach(...): [the Map's values, the next fresh id]
RECURSIVE loadTransactions(_, _, _)
loadTransactions(parsed, acc, fresh) ==
    IF parsed = <<>> THEN [txs |-> acc, id |-> fresh]
    ELSE loadTransactions(Tail(parsed), loadStep(acc, Head(parsed), fresh),
                          IF Head(parsed).id # 0 THEN fresh ELSE fresh + 1)

InitLoad ==
    /\ transactions = <<>>
    /\ chartOfAccounts = DEFAULT_CHART_OF_ACCOUNTS
    /\ budget = MOCK_BUDGET
    /\ nextId = FirstFreshId
    /\ route = "ledger"
    /\ isModalOpen = FALSE
    /\ editingId = Null
    /\ formData = initialFormState
    /\ deletedTx = Null
    /\ showUndoToast = FALSE
    /\ bankLines = <<>>
    /\ dateRange = initialDateRange
    /\ bankStatementBalance = 0
    /\ tzOffset = 0
    /\ everReconciled = {}
    /\ isEditing = FALSE
    /\ editCode = Null
    /\ coaForm = initialCoaForm
    /\ lastEvent = NoEvent
    /\ apiKey = FALSE
    /\ AsyncInit
    /\ \E parsed \in PersistedLists :
          storage = [ngo_transactions |-> parsed,
                     ngo_coa |-> stringifyChart(chartOfAccounts),
                     ngo_budget |-> stringifyBudget(budget)]

\* the mount effects: the load effect, then the save effects of the renders
Load ==
    /\ lastEvent.op = "none"
    /\ LET r == loadTransactions(storage.ngo_transactions, <<>>, nextId)
       IN /\ transactions' = r.txs
          /\ nextId' = r.id
    /\ lastEvent' = Event("load", <<storage.ngo_transactions>>)
    /\ History
    /\ SaveTransactions
    /\ UNCHANGED <<storeVars, route, ledgerVars, bankLines, reportVars,
                   tzOffset, settingsVars, asyncVars>>

NextLoad == Load

SpecLoad == InitLoad /\ [][NextLoad]_vars

WithoutId(tx) == [tx EXCEPT !.id = 0]

\* C13: loading a persisted list yields exactly one record per distinct
\* normalised id, carrying the fields of the last record persisted under
\* that id; every record without an id is kept under a fresh id.
C13_LoadDeduplicates ==
    lastEvent.op = "load" =>
        LET parsed == lastEvent.arg[1]
            named == {i \in 1..Len(parsed) : parsed[i].id # 0}
            ids == {StringOf(parsed[i].id) : i \in named}
            Last(n) == CHOOSE i \in named :
                          /\ StringOf(parsed[i].id) = n
                          /\ \A j \in named :
                                StringOf(parsed[j].id) = n => j <= i
            kept == SelectSeq(transactions, LAMBDA t : t.id \in ids)
            fresh == SelectSeq(transactions, LAMBDA t : t.id \notin ids)
            anonymous == SelectSeq(parsed, LAMBDA t : t.id = 0)
        IN /\ Len(kept) = Cardinality(ids)
           /\ \A n \in ids : \E k \in 1..Len(kept) :
                 kept[k] = [parsed[Last(n)] EXCEPT !.id = n]
           /\ Len(fresh) = Len(anonymous)
           /\ \A k \in 1..Len(fresh) :
                 /\ fresh[k].id >= FirstFreshId
                 /\ WithoutId(fresh[k]) = anonymous[k]
                 /\ \A m \in 1..Len(fresh) : m # k => fresh[m].id # fresh[k].id

\* a list holding the id 1 as a number and later as a string with another
\* amount, and a record without id, has been loaded
C13_Witness ==
    /\ lastEvent.op = "load"
    /\ LET parsed == lastEvent.arg[1]
       IN /\ Len(parsed) = 3
          /\ parsed[1].id = -1 /\ parsed[2].id = 0 /\ parsed[3].id = 1
          /\ parsed[1].amount # parsed[3].amount
    /\ Len(transactions) = 2

(***************************************************************************)
(* SpecSettings: the Settings page over the chart of accounts              *)
(***************************************************************************)
MaxAccounts == 3        \* most entries the chart is grown to

\* FinanceContext.tsx: chart methods
addAccount(prev, account) == Append(prev, account)

updateAccount(prev, account) ==
    [i \in 1..Len(prev) |->
        IF prev[i].code = account.code THEN account ELSE prev[i]]

deleteAccountMutant(prev, code) == SelectSeq(prev, LAMBDA a : a.code = code)

deleteAccount(prev, code) == SelectSeq(prev, LAMBDA a : a.code # code)

accountExistsMutant(chart, form) ==
    \E i \in 1..Len(chart) : chart[i] = form

\* chartOfAccounts.some(c => c.code === formData.code)
accountExists(chart, form) ==
    \E i \in 1..Len(chart) : chart[i].code = form.code

SettingsAccount(code, isHeader) ==
    [code |-> code, category |-> "Cat", isHeader |-> isHeader]

SettingsCharts ==
    {<<SettingsAccount("A", FALSE)>>,
     <<SettingsAccount("A", FALSE), SettingsAccount("B", TRUE)>>}

SettingsStores ==
    {<<>>,
     <<[id |-> 1, date |-> Today, amount |-> 1, type |-> TransactionType.EXPENSE,
        accountCode |-> "A", status |-> TransactionStatus.PENDING]>>}

\* what the form's inputs can be set to
CoaInputs ==
    {<<"code", "A">>, <<"code", "B">>, <<"category", "Cat">>,
     <<"isHeader", TRUE>>, <<"isHeader", FALSE>>}

InitSettings ==
    /\ transactions \in SettingsStores
    /\ chartOfAccounts \in SettingsCharts
    /\ budget = MOCK_BUDGET
    /\ nextId = Len(transactions) + 1
    /\ route = "settings"
    /\ isModalOpen = FALSE
    /\ editingId = Null
    /\ formData = initialFormState
    /\ deletedTx = Null
    /\ showUndoToast = FALSE
    /\ bankLines = <<>>
    /\ dateRange = initialDateRange
    /\ bankStatementBalance = 0
    /\ tzOffset = 0
    /\ everReconciled = {}
    /\ RestInit

settingsFrame ==
    UNCHANGED <<transactions, budget, nextId, route, ledgerVars, bankLines,
                reportVars, tzOffset, everReconciled, asyncVars>>

\* onChange of the code, category and isHeader inputs
setCoaField(name, value) ==
    /\ route = "settings"
    /\ coaForm' = [coaForm EXCEPT ![name] = value]
    /\ lastEvent' = Event("setFormData", <<name>>)
    /\ UNCHANGED <<chartOfAccounts, isEditing, editCode, storage>>
    /\ settingsFrame

\* Cancel
resetForm ==
    /\ route = "settings" /\ isEditing
    /\ coaForm' = initialCoaForm
    /\ isEditing' = FALSE
    /\ editCode' = Null
    /\ lastEvent' = Event("resetForm", <<>>)
    /\ UNCHANGED <<chartOfAccounts, storage>>
    /\ settingsFrame

Settings_handleEdit(i) ==
    /\ route = "settings"
    /\ i \in 1..Len(chartOfAccounts)
    /\ coaForm' = chartOfAccounts[i]
    /\ isEditing' = TRUE
    /\ editCode' = <<chartOfAccounts[i].code>>
    /\ lastEvent' = Event("handleEdit", <<chartOfAccounts[i].code>>)
    /\ UNCHANGED <<chartOfAccounts, storage>>
    /\ settingsFrame

\* window.confirm answers confirmed
Settings_handleDelete(code, confirmed) ==
    /\ route = "settings"
    /\ \E i \in 1..Len(chartOfAccounts) : chartOfAccounts[i].code = code
    /\ IF confirmed
       THEN /\ chartOfAccounts' = deleteAccount(chartOfAccounts, code)
            /\ SaveChart
            /\ lastEvent' = Event("deleteAccount", <<code>>)
       ELSE /\ UNCHANGED <<chartOfAccounts, storage>>
            /\ lastEvent' = Event("handleDelete", <<code>>)
    /\ UNCHANGED settingsVars
    /\ settingsFrame

Settings_handleSubmit ==
    /\ route = "settings"
    /\ coaForm.code # "" /\ coaForm.category # ""     \* required inputs
    /\ IF isEditing /\ editCode # Null
       THEN IF editCode[1] # coaForm.code
            THEN /\ Len(chartOfAccounts) < MaxAccounts
                          \/ accountExists(chartOfAccounts, [code |-> editCode[1]])
                 /\ chartOfAccounts' =
                       addAccount(deleteAccount(chartOfAccounts, editCode[1]),
                                  coaForm)
                 /\ SaveChart
                 /\ lastEvent' = Event("deleteAccount; addAccount", <<coaForm.code>>)
                 /\ coaForm' = initialCoaForm /\ isEditing' = FALSE
                 /\ editCode' = Null
            ELSE /\ chartOfAccounts' = updateAccount(chartOfAccounts, coaForm)
                 /\ SaveChart
                 /\ lastEvent' = Event("updateAccount", <<coaForm.code>>)
                 /\ coaForm' = initialCoaForm /\ isEditing' = FALSE
                 /\ editCode' = Null
       ELSE IF accountExists(chartOfAccounts, coaForm)
            THEN /\ lastEvent' = Event("alert", <<coaForm.code>>)
                 /\ UNCHANGED <<chartOfAccounts, storage, settingsVars>>
            ELSE /\ Len(chartOfAccounts) < MaxAccounts
                 /\ chartOfAccounts' = addAccount(chartOfAccounts, coaForm)
                 /\ SaveChart
                 /\ lastEvent' = Event("addAccount", <<coaForm.code>>)
                 /\ coaForm' = initialCoaForm /\ isEditing' = FALSE
                 /\ editCode' = Null
    /\ settingsFrame

NextSettings ==
    \/ \E in \in CoaInputs : setCoaField(in[1], in[2])
    \/ resetForm
    \/ \E i \in 1..MaxAccounts : Settings_handleEdit(i)
    \/ \E code \in {"A", "B"}, confirmed \in BOOLEAN :
          Settings_handleDelete(code, confirmed)
    \/ Settings_handleSubmit

SpecSettings == InitSettings /\ [][NextSettings]_vars

\* C14: no two entries of the chart of accounts have the same code, whatever
\* Settings creates, edits and deletes ran on a chart of unique codes.
C14_CodesUnique ==
    \A i, j \in 1..Len(chartOfAccounts) :
        i # j => chartOfAccounts[i].code # chartOfAccounts[j].code

\* C15: submitting the Settings create form with a code the chart already
\* holds changes neither the chart of accounts nor the transactions nor the
\* budget (nor what is persisted).
C15_DuplicateCreateRejected ==
    [][ (/\ Settings_handleSubmit
         /\ ~(isEditing /\ editCode # Null)
         /\ \E i \in 1..Len(chartOfAccounts) :
               chartOfAccounts[i].code = coaForm.code)
           => /\ chartOfAccounts' = chartOfAccounts
              /\ transactions' = transactions
              /\ budget' = budget
              /\ storage' = storage
      ]_vars

\* a create of code "A" as a header has been refused, the chart holding "A"
\* as an account that is not a header
C15_Witness ==
    /\ lastEvent.op = "alert" /\ lastEvent.arg = <<"A">>
    /\ coaForm.isHeader
    /\ \E i \in 1..Len(chartOfAccounts) :
          chartOfAccounts[i].code = "A" /\ ~chartOfAccounts[i].isHeader

\* C16: deleteAccount(code) removes the chart entries of that code and no
\* other and leaves the transactions and the budget as they are, so that
\* getBalance() and the bank reconciliation's ledgerBalance keep their
\* values, also when transactions carry the deleted code.
C16_DeleteAccountFrame ==
    [][ \A code \in {"A", "B"} :
          Settings_handleDelete(code, TRUE) =>
             /\ IsRestriction(chartOfAccounts', chartOfAccounts,
                   {i \in 1..Len(chartOfAccounts) :
                       chartOfAccounts[i].code # code})
             /\ transactions' = transactions
             /\ budget' = budget
             /\ getBalance(transactions') = getBalance(transactions)
             /\ bankRecData(transactions', dateRange.end,
                            bankStatementBalance).ledgerBalance
                  = bankRecData(transactions, dateRange.end,
                                bankStatementBalance).ledgerBalance
      ]_vars

\* account "A" has been deleted while a transaction carries its code and
\* another account is left in the chart
C16_Witness ==
    /\ lastEvent.op = "deleteAccount" /\ lastEvent.arg = <<"A">>
    /\ Len(transactions) = 1 /\ transactions[1].accountCode = "A"
    /\ Len(chartOfAccounts) >= 1
    /\ \A i \in 1..Len(chartOfAccounts) : chartOfAccounts[i].code # "A"
    /\ getBalance(transactions) = -1

\* C17: updateTransaction(t) with an id no stored transaction has leaves the
\* collection as it is; with a matching id it replaces the matching records
\* where they stand and keeps the length of the collection and every other
\* transaction.
C17_UpdateReplacesInPlace ==
    [][ \A t \in StoreTxs :
          CallUpdateTransaction(t) =>
             /\ Len(transactions') = Len(transactions)
             /\ \A i \in 1..Len(transactions) :
                   transactions'[i] =
                      IF StringOf(transactions[i].id) = StringOf(t.id)
                      THEN [t EXCEPT !.id = StringOf(t.id)]
                      ELSE transactions[i]
             /\ (\A i \in 1..Len(transactions) :
                    StringOf(transactions[i].id) # StringOf(t.id))
                   => transactions' = transactions
      ]_vars

\* updateTransaction has been called with the id "1" on a store that holds
\* only records of id 2, one of them under the number 2
C17_Witness ==
    /\ lastEvent.op = "updateTransaction"
    /\ lastEvent.arg[1].id = 1
    /\ Len(transactions) = MaxTx
    /\ \A i \in 1..Len(transactions) : StringOf(transactions[i].id) = 2
    /\ transactions[1].id = -2

(***************************************************************************)
(* SpecPersist: mutations of the three stores and their save effects       *)
(***************************************************************************)
PersistTxs == {t \in StoreTxs : t.id > 0 /\ t.amount = 1}

PersistAccounts == {SettingsAccount("A", TRUE), SettingsAccount("C", FALSE)}

\* cells of the amount column of a budget CSV: a decimal numeral, another
\* text, or nothing
AmountCells ==
    [kind : {"num"}, n : 1..MaxAmount] \cup [kind : {"text", "empty"}, n : {0}]

\* lines of a budget CSV: a header line, data lines, a line without amount
BudgetCsvLines ==
    {l \in [code : {"Code", "A"}, amt : AmountCells] :
        l.code = "Code" <=> l.amt.kind = "text"}

BudgetFiles == UNION {[1..n -> BudgetCsvLines] : n \in 1..2}

\* parseFloat of a cell that is not empty
parseFloat(cell) == IF cell.kind = "num" THEN cell.n ELSE NaN

\* code.trim(): the code cells of the model with white space are " " and " A"
trim(s) == IF s = " " THEN "" ELSE IF s = " A" THEN "A" ELSE s

\* handleBudgetUpload: lines.forEach(... if (code && amt) push ...); a cell
\* is truthy when it is not the empty string (a cell of white space is)
RECURSIVE parseBudgetCsv(_)
parseBudgetCsv(lines) ==
    IF lines = <<>> THEN <<>>
    ELSE LET l == Head(lines)
         IN (IF l.code # "" /\ l.amt.kind # "empty"
             THEN <<[code |-> trim(l.code),
                     monthlyBudget |-> parseFloat(l.amt)]>>
             ELSE <<>>) \o parseBudgetCsv(Tail(lines))

updateBudget(newBudget) == newBudget

chartFrame ==
    /\ SaveChart
    /\ UNCHANGED <<transactions, budget, nextId, route, ledgerVars, bankLines,
                   reportVars, tzOffset, settingsVars, asyncVars,
                   everReconciled>>

CallAddAccount(account) ==
    /\ Len(chartOfAccounts) < MaxAccounts
    /\ chartOfAccounts' = addAccount(chartOfAccounts, account)
    /\ lastEvent' = Event("addAccount", <<account.code>>)
    /\ chartFrame

CallUpdateAccount(account) ==
    /\ chartOfAccounts' = updateAccount(chartOfAccounts, account)
    /\ lastEvent' = Event("updateAccount", <<account.code>>)
    /\ chartFrame

CallDeleteAccount(code) ==
    /\ chartOfAccounts' = deleteAccount(chartOfAccounts, code)
    /\ lastEvent' = Event("deleteAccount", <<code>>)
    /\ chartFrame

handleBudgetUpload(file) ==
    /\ route = "reports"
    /\ budget' = updateBudget(parseBudgetCsv(file))
    /\ SaveBudget
    /\ lastEvent' = Event("updateBudget", <<Len(budget')>>)
    /\ UNCHANGED <<transactions, chartOfAccounts, nextId, route, ledgerVars,
                   bankLines, reportVars, tzOffset, settingsVars, asyncVars,
                   everReconciled>>

InitPersist == BaseInit

NextPersist ==
    \/ Navigate("reports")
    \/ \E t \in PersistTxs : CallAddTransaction(t)
    \/ \E id \in {1, 2} : CallDeleteTransaction(id)
    \/ \E a \in PersistAccounts : CallAddAccount(a)
    \/ \E a \in PersistAccounts : CallUpdateAccount(a)
    \/ \E code \in {"A", "B"} : CallDeleteAccount(code)
    \/ \E file \in BudgetFiles : handleBudgetUpload(file)

SpecPersist == InitPersist /\ [][NextPersist]_vars

\* C19: after a mutation of a store and its save effect, the blob persisted
\* under the store's key equals the store's collection, and a mutation of one
\* store leaves the blobs of the other two stores as they were.
C19_PersistedEqualsStores ==
    [][ /\ storage'.ngo_transactions = transactions'
        /\ storage'.ngo_coa = chartOfAccounts'
        /\ storage'.ngo_budget = budget'
        /\ (\E t \in PersistTxs : CallAddTransaction(t))
              \/ (\E id \in {1, 2} : CallDeleteTransaction(id))
              => /\ storage'.ngo_coa = storage.ngo_coa
                 /\ storage'.ngo_budget = storage.ngo_budget
        /\ (\E file \in BudgetFiles : handleBudgetUpload(file))
              => /\ storage'.ngo_coa = storage.ngo_coa
                 /\ storage'.ngo_transactions = storage.ngo_transactions
        /\ (\E code \in {"A", "B"} : CallDeleteAccount(code))
              => /\ storage'.ngo_transactions = storage.ngo_transactions
                 /\ storage'.ngo_budget = storage.ngo_budget
      ]_vars


(***************************************************************************)
(* SpecImport: the ledger CSV import over files of rows                    *)
(***************************************************************************)
\* rows of a ledger CSV by their number of columns and the amount column as
\* parseFloat(cols[5]) || 0 reads it (0 when there is no such column)
ImportRows ==
    {r \in [ncols : {3, 4, 6}, amount : {-1, 0, 1}] :
        r.ncols < 6 => r.amount = 0}

ImportFiles == UNION {[1..n -> ImportRows] : n \in 1..MaxTx}

InitImport == Init

NextImport ==
    \/ Navigate("reconciliation")
    \/ \E rows \in ImportFiles : handleFileUploadLedger(rows)
    \/ \E t \in PersistTxs : CallAddTransaction(t)
    \/ \E id \in 1..MaxId : CallDeleteTransaction(id)

SpecImport == InitImport /\ [][NextImport]_vars

ValidRows(rows) == SelectSeq(rows, LAMBDA r : r.ncols >= 4)

\* C18: addTransaction(t) puts t at the head of the collection and keeps the
\* transactions held in their order; the k calls of one ledger CSV import all
\* take effect: the collection grows by k, the last added first.
C18_AddAtHead ==
    [][ /\ \A rows \in ImportFiles :
              handleFileUploadLedger(rows) =>
                 LET v == ValidRows(rows)
                     k == Len(v)
                 IN /\ Len(transactions') = Len(transactions) + k
                    /\ \A i \in 1..Len(transactions) :
                          transactions'[k + i] = transactions[i]
                    /\ \A j \in 1..k :
                          transactions'[j] =
                             importedTransaction(v[k + 1 - j], nextId + (k - j))
        /\ \A t \in PersistTxs :
              CallAddTransaction(t) => transactions' = <<t>> \o transactions
      ]_vars

\* the store as an import of two rows into the empty store leaves it: the
\* second row's transaction, an income, before the first's, an expense
C18_Witness ==
    /\ route = "reconciliation"
    /\ nextId = 3
    /\ Len(transactions) = 2
    /\ transactions[1] = importedTransaction([ncols |-> 6, amount |-> 1], 2)
    /\ transactions[2] = importedTransaction([ncols |-> 6, amount |-> -1], 1)

\* C20: the ledger CSV import adds one transaction for every data row,
\* whatever the number of its columns: INCOME when the parsed amount is >= 0
\* and EXPENSE otherwise, the magnitude as amount, status PENDING.
C20_ImportTakesEveryRow ==
    [][ \A rows \in ImportFiles :
          handleFileUploadLedger(rows) =>
             /\ Len(transactions') = Len(transactions) + Len(rows)
             /\ \A j \in 1..Len(rows) :
                   LET t == transactions'[Len(rows) + 1 - j]
                   IN /\ t.status = TransactionStatus.PENDING
                      /\ t.amount = Abs(rows[j].amount)
                      /\ t.type = IF rows[j].amount >= 0
                                  THEN TransactionType.INCOME
                                  ELSE TransactionType.EXPENSE
      ]_vars

(***************************************************************************)
(* SpecBudgetCsv: the budget CSV upload and the export of the Reports page *)
(***************************************************************************)
\* amount cells of an uploaded line: those of AmountCells and a cell of white
\* space only (as the "\r" a CRLF file leaves behind an empty amount)
UploadCells == AmountCells \cup [kind : {"blank"}, n : {0}]

\* lines of an uploaded budget CSV, by their first two cells
UploadLines == [code : {"A", " A", "B", "", " "}, amt : UploadCells]

UploadFiles == UNION {[1..n -> UploadLines] : n \in 1..2}

\* a text written into a CSV cell, as the upload reads it back
cellOfText(s) == [kind |-> IF s = "" THEN "empty" ELSE "text", n |-> 0]

\* downloadCSV on the Budget vs Actuals tab: the header line and one line per
\* row; the first two cells of a line are Code and Category
downloadCSV(rows) ==
    <<[code |-> "Code", amt |-> cellOfText("Category")]>>
    \o [i \in 1..Len(rows) |->
           [code |-> rows[i].code, amt |-> cellOfText(rows[i].category)]]

exportedBudgetCsv ==
    downloadCSV(budgetVsActualsData(transactions, chartOfAccounts, budget,
                                    dateRange, tzOffset))

\* the user downloads the CSV and uploads that file as the budget
ReimportExport == handleBudgetUpload(exportedBudgetCsv)

InitBudgetCsv == BaseInit

NextBudgetCsv ==
    \/ Navigate("reports")
    \/ \E file \in UploadFiles : handleBudgetUpload(file)
    \/ ReimportExport

SpecBudgetCsv == InitBudgetCsv /\ [][NextBudgetCsv]_vars

\* a field is present when it is more than white space
WellFormed(l) == trim(l.code) # "" /\ l.amt.kind \in {"num", "text"}

\* C21: after a budget CSV upload the budget holds one line per well-formed
\* input line (code and amount both present), in input order, no line for a
\* malformed input line, and nothing of the budget held before.
C21_UploadKeepsWellFormedLines ==
    [][ \A file \in UploadFiles :
           handleBudgetUpload(file) =>
              LET wf == SelectSeq(file, WellFormed)
              IN /\ Len(budget') = Len(wf)
                 /\ \A i \in 1..Len(wf) :
                       /\ budget'[i].code = trim(wf[i].code)
                       /\ budget'[i].monthlyBudget = parseFloat(wf[i].amt)
      ]_vars

\* the mapping from account code to monthlyBudget that a budget holds (the
\* first line of a code is the one budget.find reads)
budgetMapping(lines) ==
    [c \in {lines[i].code : i \in 1..Len(lines)} |->
        findBudget(lines, c)[1].monthlyBudget]

\* C22: exporting the budget to CSV and importing the exported file through
\* the budget CSV upload gives back the same mapping from account code to
\* monthlyBudget.
C22_ExportImportRoundTrip ==
    [][ ReimportExport => budgetMapping(budget') = budgetMapping(budget) ]_vars

(***************************************************************************)
(* SpecMatch: the Match buttons of the Reconciliation page over stores of  *)
(* incomes and expenses                                                    *)
(***************************************************************************)
\* stores the page opens on: unreconciled incomes and expenses with ids 1..n
MatchTxs ==
    [id : {0}, date : {Today}, amount : 1..MaxAmount,
     type : {TransactionType.INCOME, TransactionType.EXPENSE},
     accountCode : {"A"},
     status : {TransactionStatus.PENDING, TransactionStatus.CLEARED}]

MatchStores ==
    UNION {{[i \in 1..n |-> [f[i] EXCEPT !.id = i]] : f \in [1..n -> MatchTxs]} :
              n \in 0..MaxTx}

InitMatch ==
    /\ transactions \in MatchStores
    /\ chartOfAccounts = DEFAULT_CHART_OF_ACCOUNTS
    /\ budget = MOCK_BUDGET
    /\ nextId = Len(transactions) + 1
    /\ route = "reconciliation"
    /\ isModalOpen = FALSE
    /\ editingId = Null
    /\ formData = initialFormState
    /\ deletedTx = Null
    /\ showUndoToast = FALSE
    /\ bankLines = <<>>
    /\ dateRange = initialDateRange
    /\ bankStatementBalance = 0
    /\ tzOffset = 0
    /\ everReconciled = {}
    /\ RestInit

\* a click on a Match button: the buttons of a bank line are its candidates
clickMatch(ledgerId, bankId) ==
    /\ \E i \in 1..Len(bankLines) :
          /\ bankLines[i].id = bankId
          /\ \E k \in 1..Len(matchCandidates(transactions, bankLines[i])) :
                matchCandidates(transactions, bankLines[i])[k].id = ledgerId
    /\ handleMatch(ledgerId, bankId)

NextMatch ==
    \/ \E n \in BankFileSizes : handleFileUploadBank(n)
    \/ ClearBankLines
    \/ \E l \in 1..MaxTx, b \in 0..1 : clickMatch(l, b)

SpecMatch == InitMatch /\ [][NextMatch]_vars

\* C25: for every bank line with amount a, the Match candidates are exactly
\* the stored transactions that are not RECONCILED and whose amount is less
\* than one minor unit away from |a|, whatever their type and the sign of a;
\* a transaction that has been matched is offered for no bank line.
C25_MatchCandidates ==
    \A i \in 1..Len(bankLines) :
        LET a == bankLines[i].amount
            mag == IF a < 0 THEN -a ELSE a
            offered == matchCandidates(transactions, bankLines[i])
            positions == {j \in 1..Len(transactions) :
                            /\ transactions[j].status # "RECONCILED"
                            /\ transactions[j].amount - mag < 1
                            /\ mag - transactions[j].amount < 1}
        IN /\ Len(offered) = Cardinality(positions)
           /\ \A j \in positions :
                 \E k \in 1..Len(offered) : offered[k] = transactions[j]
           /\ \A k \in 1..Len(offered) : offered[k].id \notin everReconciled

\* a debit line is left after a match: the matched transaction of amount 1 is
\* not offered for it, an unmatched income of amount 1 is
C25_Witness ==
    /\ \E i \in 1..Len(bankLines) :
          /\ bankLines[i].amount < 0
          /\ Len(matchCandidates(transactions, bankLines[i])) = 1
          /\ matchCandidates(transactions, bankLines[i])[1].type = "INCOME"
    /\ \E j \in 1..Len(transactions) :
          /\ transactions[j].status = "RECONCILED"
          /\ transactions[j].amount = 1

(***************************************************************************)
(* SpecSort: the order of the Budget vs Actuals rows over charts of three  *)
(* detail accounts                                                         *)
(***************************************************************************)
SortCharts == {<<Account("A", FALSE), Account("B", FALSE), Account("A", FALSE)>>,
               <<Account("B", FALSE), Account("A", FALSE), Account("B", FALSE)>>}

InitSort ==
    /\ transactions = <<>>
    /\ chartOfAccounts \in SortCharts
    /\ budget \in Budgets
    /\ nextId = 1
    /\ route = "reports"
    /\ isModalOpen = FALSE
    /\ editingId = Null
    /\ formData = initialFormState
    /\ deletedTx = Null
    /\ showUndoToast = FALSE
    /\ bankLines = <<>>
    /\ tzOffset = 0
    /\ dateRange = initialDateRangeFor(tzOffset)
    /\ bankStatementBalance = 0
    /\ everReconciled = {}
    /\ RestInit

NextSort ==
    \/ AddTransaction(BudgetTxs)
    \/ SetDateRangeStart(20240201)
    \/ SetDateRangeEnd(20240201)

SpecSort == InitSort /\ [][NextSort]_vars

JournalStores ==
    {<<[id |-> 1, date |-> Today, amount |-> 1,
        type |-> TransactionType.INCOME, accountCode |-> "A",
        status |-> TransactionStatus.CLEARED]>>,
     <<[id |-> 1, date |-> 20240201, amount |-> 1,
        type |-> TransactionType.EXPENSE, accountCode |-> "A",
        status |-> TransactionStatus.CLEARED]>>}

InitJournal ==
    /\ transactions \in JournalStores
    /\ chartOfAccounts = DEFAULT_CHART_OF_ACCOUNTS
    /\ budget = MOCK_BUDGET
    /\ nextId = Len(transactions) + 1
    /\ route = "ledger"
    /\ isModalOpen = FALSE
    /\ editingId = Null
    /\ formData = initialFormState
    /\ deletedTx = Null
    /\ showUndoToast = FALSE
    /\ bankLines = <<>>
    /\ dateRange = initialDateRange
    /\ bankStatementBalance = 0
    /\ tzOffset = 0
    /\ everReconciled = {}
    /\ RestInit

NextJournal ==
    \/ \E r \in {"ledger", "reconciliation"} : Navigate(r)
    \/ OpenNewModal
    \/ \E i \in 1..MaxTx : handleEdit(i)
    \/ \E in \in FormInputs : handleInputChange(in[1], in[2])
    \/ handleSubmit
    \/ \E id \in 1..MaxId : handleDelete(id)
    \/ handleUndo
    \/ \E l \in 1..MaxId : handleMatch(l, 0)

SpecJournal == InitJournal /\ [][NextJournal]_vars

\* the inflow types are INCOME, CONT and OPENING
signedAmount(t) ==
    IF t.type \in {"INCOME", "CONT", "OPENING"} THEN t.amount ELSE -t.amount

RECURSIVE SignedSum(_, _)
SignedSum(txs, I) ==
    IF I = {} THEN 0
    ELSE LET i == CHOOSE j \in I : TRUE
         IN signedAmount(txs[i]) + SignedSum(txs, I \ {i})

projectedBankBalance(txs, d) == bankRecData(txs, d, 0).projectedBankBalance

\* what a step does to projectedBankBalance as of d; datedMatch tells whether
\* the effect of a match depends on the date of the matched transaction
ProjectedRule(d, datedMatch) ==
    LET p == projectedBankBalance(transactions, d)
        q == projectedBankBalance(transactions', d)
        open(id) == /\ StatusOf(transactions, id) # Null
                    /\ StatusOf(transactions, id) # <<"RECONCILED">>
    IN /\ q = SignedSum(transactions',
                        {i \in 1..Len(transactions') :
                            /\ transactions'[i].status = "RECONCILED"
                            /\ transactions'[i].date <= d})
       /\ (handleSubmit /\ editingId = Null) => q = p
       /\ (handleSubmit /\ editingId # Null /\ open(editingId[1])) => q = p
       /\ \A id \in 1..MaxId : (handleDelete(id) /\ open(id)) => q = p
       /\ (handleUndo /\ deletedTx[1].status # "RECONCILED") => q = p
       /\ \A l \in 1..MaxId :
             (handleMatch(l, 0) /\ open(l)) =>
                LET tx == Head(SelectSeq(transactions, LAMBDA t : t.id = l))
                IN /\ q = p + (IF datedMatch /\ tx.date > d THEN 0
                                                           ELSE signedAmount(tx))
                   /\ getBalance(transactions') = getBalance(transactions)
                   /\ bankRecData(transactions', d, 0).ledgerBalance
                         = bankRecData(transactions, d, 0).ledgerBalance

\* C27 as stated: projectedBankBalance is the signed sum (inflows positive,
\* all other types negative) of the RECONCILED transactions dated on or
\* before the as-of date; adding, editing or deleting an unreconciled
\* transaction leaves it unchanged; a match changes it by the matched
\* transaction's signed amount and leaves getBalance() and ledgerBalance
\* unchanged.
C27_ProjectedBalanceAsStated ==
    [][ ProjectedRule(dateRange.end, FALSE) ]_vars

\* C27 amended: as above, but a match changes projectedBankBalance by the
\* matched transaction's signed amount only when that transaction is dated on
\* or before the as-of date, and leaves it unchanged when it is dated later.
C27_ProjectedBalanceFollowsReconciled ==
    [][ ProjectedRule(dateRange.end, TRUE) ]_vars

\* a post-dated expense of 1 and an expense of 1 entered today have both been
\* matched: only the second counts in the projected balance as of today
C27_Witness ==
    /\ Len(transactions) = 2
    /\ \A i \in 1..2 : /\ transactions[i].status = "RECONCILED"
                        /\ transactions[i].id \in everReconciled
                        /\ transactions[i].amount = 1
    /\ \E i \in 1..2 : transactions[i].date > dateRange.end
    /\ projectedBankBalance(transactions, dateRange.end) = -1
    /\ getBalance(transactions) = -2

\* the transactions of a collection as a bag
BagOfTxs(txs) ==
    LET S == {txs[i] : i \in 1..Len(txs)}
    IN [t \in S |-> Cardinality({i \in 1..Len(txs) : txs[i] = t})]

\* C28: in the Ledger a delete followed by Undo leaves the store holding the
\* same transactions (ids and all fields, status included) as before the
\* delete, the restored one at the head, and getBalance() as before; Undo
\* restores the transaction of the most recent delete.
C28_DeleteThenUndoRestores ==
    [][ /\ \A id \in 1..MaxId :
              handleDelete(id) =>
                 LET restored == addTransaction(transactions', deletedTx'[1])
                 IN /\ showUndoToast'
                    /\ deletedTx'[1].id = id
                    /\ BagOfTxs(restored) = BagOfTxs(transactions)
                    /\ Head(restored) = deletedTx'[1]
                    /\ getBalance(restored) = getBalance(transactions)
        /\ handleUndo =>
              /\ transactions' = addTransaction(transactions, deletedTx[1])
              /\ Head(transactions') = deletedTx[1]
              /\ deletedTx[1].id \notin IdsOf(transactions)
        /\ deletedTx' # deletedTx =>
              \/ \E id \in 1..MaxId : handleDelete(id)
              \/ deletedTx' = Null
      ]_vars

\* transaction 2 was deleted, later the matched transaction 1 was deleted
\* and Undo pressed: it is back, ahead of the newer transaction 3 and still
\* RECONCILED
C28_Witness ==
    /\ route = "ledger" /\ deletedTx = Null /\ ~showUndoToast
    /\ nextId = 4
    /\ Len(transactions) = 2
    /\ transactions[1].id = 1 /\ transactions[1].status = "RECONCILED"
    /\ transactions[2].id = 3

(***************************************************************************)
(* SpecAssist: the calls of the Ledger and the Reconciliation page to the  *)
(* generative service (geminiService.ts)                                   *)
(***************************************************************************)
\* what ai.models.generateContent does for a categorisation: it fails, or it
\* answers with a text
CategorizeResponses ==
    [ok : {FALSE}, text : {""}] \cup [ok : {TRUE}, text : {"A", "Z", "UNKNOWN", ""}]

\* categorizeTransaction(description, accounts): accounts is <<chart>>, or
\* Null when the caller passes no second argument. The outcome is a value
\* (<<code>> or Null) or a rejection.
categorizeTransaction(accounts, response) ==
    IF ~apiKey THEN [rejects |-> FALSE, value |-> Null]
    ELSE IF accounts = Null
         \* accounts.filter on undefined, before the try block
         THEN [rejects |-> TRUE, value |-> Null]
    ELSE IF response.ok /\ response.text # "" /\ response.text # "UNKNOWN"
         THEN [rejects |-> FALSE, value |-> <<response.text>>]
         ELSE [rejects |-> FALSE, value |-> Null]

\* Ledger.handleSmartCategorize up to its await (a description is typed)
handleSmartCategorize ==
    /\ route = "ledger" /\ isModalOpen /\ ~isSuggesting
    /\ suggestCall = "idle"
    /\ isSuggesting' = TRUE
    /\ suggestCall' = "pending"
    /\ UNCHANGED <<transactions, storeVars, nextId, route, ledgerVars,
                   bankLines, reportVars, tzOffset, settingsVars, lastEvent,
                   everReconciled, storage, apiKey, isParsing, parseCall,
                   timeouts, sinceDelete, mountStep, queued>>

\* Ledger.handleSmartCategorize from its await on: the call is made with the
\* description alone
settleCategorize(response) ==
    /\ suggestCall \in {"pending", "orphan"}
    /\ LET r == categorizeTransaction(Null, response)
           exists == r.value # Null /\
                     \E i \in 1..Len(DEFAULT_CHART_OF_ACCOUNTS) :
                        DEFAULT_CHART_OF_ACCOUNTS[i].code = r.value[1]
       IN IF r.rejects
          THEN /\ suggestCall' = "rejected"
               /\ UNCHANGED <<isSuggesting, formData>>
          ELSE /\ suggestCall' = "idle"
               /\ IF suggestCall = "pending"
                  THEN /\ isSuggesting' = FALSE
                       /\ formData' = IF exists
                                      THEN [formData EXCEPT !.accountCode = r.value[1]]
                                      ELSE formData
                  ELSE UNCHANGED <<isSuggesting, formData>>
    /\ UNCHANGED <<transactions, storeVars, nextId, route, isModalOpen,
                   editingId, deletedTx, showUndoToast, bankLines, reportVars,
                   tzOffset, settingsVars, lastEvent, everReconciled, storage,
                   apiKey, isParsing, parseCall, timeouts, sinceDelete,
                   mountStep, queued>>

\* lines of a bank statement text: a blank line, or a line of cells (the
\* header is one) with the amount parseFloat reads in its third cell
BankTextLines ==
    [blank : {TRUE}, amount : {0}] \cup [blank : {FALSE}, amount : {-1, 1}]

BankTexts == UNION {[1..n -> BankTextLines] : n \in 1..3}

\* what ai.models.generateContent does for a statement: it fails, or it
\* answers with a JSON array of lines
ParseResponses ==
    [ok : {FALSE}, lines : {<<>>}]
    \cup [ok : {TRUE}, lines : {<<>>, <<[date |-> Today, amount |-> 1]>>}]

parseBankStatementLines(rawText, response) ==
    IF ~apiKey THEN <<>>
    ELSE IF response.ok THEN response.lines ELSE <<>>

naiveSplitMutant(text) ==
    [idx \in 1..Len(text) |->
        [id |-> idx - 1, date |-> Today, amount |-> text[idx].amount]]

\* the fallback of handleFileUpload (BANK): the non-blank lines, without the
\* first of them, one bank line each with id bank-man-<idx>
naiveSplit(text) ==
    LET lines == SelectSeq(text, LAMBDA l : ~l.blank)
        data == IF lines = <<>> THEN <<>> ELSE Tail(lines)
    IN [idx \in 1..Len(data) |->
           [id |-> idx - 1, date |-> Today, amount |-> data[idx].amount]]

\* handleFileUpload (BANK), reader.onload up to its await
readBankFile(text) ==
    /\ route = "reconciliation"
    /\ parseCall = Null
    /\ isParsing' = TRUE
    /\ parseCall' = <<[text |-> text, mounted |-> TRUE]>>
    /\ UNCHANGED <<transactions, storeVars, nextId, route, ledgerVars,
                   bankLines, reportVars, tzOffset, settingsVars, lastEvent,
                   everReconciled, storage, apiKey, isSuggesting, suggestCall,
                   timeouts, sinceDelete, mountStep, queued>>

\* handleFileUpload (BANK), reader.onload from its await on; the ids of
\* parsed lines (bank-imp-<i>-<now>) are 10 + i
settleBankParse(response) ==
    /\ parseCall # Null
    /\ LET text == parseCall[1].text
           parsed == parseBankStatementLines(text, response)
       IN IF parseCall[1].mounted
          THEN /\ bankLines' =
                     IF Len(parsed) > 0
                     THEN [i \in 1..Len(parsed) |->
                             [id |-> 10 + i - 1, date |-> parsed[i].date,
                              amount |-> parsed[i].amount]]
                     ELSE naiveSplit(text)
               /\ isParsing' = FALSE
          ELSE UNCHANGED <<bankLines, isParsing>>
    /\ parseCall' = Null
    /\ UNCHANGED <<transactions, storeVars, nextId, route, ledgerVars,
                   reportVars, tzOffset, settingsVars, lastEvent,
                   everReconciled, storage, apiKey, isSuggesting, suggestCall,
                   timeouts, sinceDelete, mountStep, queued>>

InitAssist ==
    /\ transactions = <<>>
    /\ chartOfAccounts = DEFAULT_CHART_OF_ACCOUNTS
    /\ budget = MOCK_BUDGET
    /\ nextId = 1
    /\ route = "ledger"
    /\ isModalOpen = FALSE
    /\ editingId = Null
    /\ formData = initialFormState
    /\ deletedTx = Null
    /\ showUndoToast = FALSE
    /\ bankLines = <<>>
    /\ dateRange = initialDateRange
    /\ bankStatementBalance = 0
    /\ tzOffset = 0
    /\ everReconciled = {}
    /\ isEditing = FALSE
    /\ editCode = Null
    /\ coaForm = initialCoaForm
    /\ lastEvent = NoEvent
    /\ storage = [ngo_transactions |-> stringifyTransactions(transactions),
                  ngo_coa |-> stringifyChart(chartOfAccounts),
                  ngo_budget |-> stringifyBudget(budget)]
    /\ apiKey \in BOOLEAN
    /\ AsyncInit

NextAssist ==
    \/ \E r \in {"ledger", "reconciliation"} : Navigate(r)
    \/ OpenNewModal
    \/ closeModal
    \/ handleSmartCategorize
    \/ \E response \in CategorizeResponses : settleCategorize(response)
    \/ \E text \in BankTexts : readBankFile(text)
    \/ \E response \in ParseResponses : settleBankParse(response)
    \/ ClearBankLines

\* a call made settles: its promise is fulfilled or rejected
SpecAssist ==
    /\ InitAssist
    /\ [][NextAssist]_vars
    /\ WF_vars(\E response \in CategorizeResponses : settleCategorize(response))
    /\ WF_vars(\E response \in ParseResponses : settleBankParse(response))

\* C23: a categorisation request never rejects to its caller: with the
\* service unconfigured, answering, failing or answering "UNKNOWN", the call
\* of the Ledger's AI Categorize action completes with a code or without a
\* suggestion, and once it has, isSuggesting is false again.
C23_CategorizeNeverRejects ==
    /\ suggestCall # "rejected"
    /\ (route = "ledger" /\ suggestCall = "idle") => ~isSuggesting

\* C24: when the statement-parsing service is unconfigured, fails or returns
\* an empty list, the bank lines become the naive split of the same text, one
\* bank line per non-blank line after the header; and in every outcome of a
\* bank upload isParsing returns to false.
C24_BankUploadFallsBack ==
    /\ [][ \A response \in ParseResponses :
              (/\ settleBankParse(response)
               /\ parseCall[1].mounted
               /\ (~apiKey \/ ~response.ok \/ response.lines = <<>>))
                 => LET text == parseCall[1].text
                        nonblank == {i \in 1..Len(text) : ~text[i].blank}
                        \* the k-th non-blank line of the text
                        nth(k) == CHOOSE i \in nonblank :
                                    Cardinality({j \in nonblank : j < i}) = k - 1
                        n == Cardinality(nonblank)
                    IN /\ Len(bankLines') = IF n = 0 THEN 0 ELSE n - 1
                       /\ \A k \in 1..Len(bankLines') :
                             /\ bankLines'[k].amount = text[nth(k + 1)].amount
                             /\ bankLines'[k].id = k - 1
                       /\ ~isParsing'
       ]_vars
    /\ (isParsing ~> ~isParsing)

\* the configured service answered with an empty list for a text of a
\* header, a blank line and a debit: the fallback left the one debit line
C24_Witness ==
    /\ apiKey /\ route = "reconciliation"
    /\ parseCall = Null /\ ~isParsing
    /\ Len(bankLines) = 1
    /\ bankLines[1].id = 0 /\ bankLines[1].amount = -1

(***************************************************************************)
(* SpecMount: the effects of FinanceProvider at application start-up, one  *)
(* step each                                                               *)
(***************************************************************************)
InitMount ==
    /\ transactions = <<>>
    /\ chartOfAccounts = DEFAULT_CHART_OF_ACCOUNTS
    /\ budget = MOCK_BUDGET
    /\ nextId = FirstFreshId
    /\ route = "ledger"
    /\ isModalOpen = FALSE
    /\ editingId = Null
    /\ formData = initialFormState
    /\ deletedTx = Null
    /\ showUndoToast = FALSE
    /\ bankLines = <<>>
    /\ dateRange = initialDateRange
    /\ bankStatementBalance = 0
    /\ tzOffset = 0
    /\ everReconciled = {}
    /\ isEditing = FALSE
    /\ editCode = Null
    /\ coaForm = initialCoaForm
    /\ lastEvent = NoEvent
    /\ apiKey = FALSE
    /\ isSuggesting = FALSE
    /\ suggestCall = "idle"
    /\ isParsing = FALSE
    /\ parseCall = Null
    /\ timeouts = <<>>
    /\ sinceDelete = Null
    /\ mountStep = "mounted"
    /\ queued = Null
    /\ \E parsed \in PersistedLists :
          storage = [ngo_transactions |-> parsed,
                     ngo_coa |-> stringifyChart(chartOfAccounts),
                     ngo_budget |-> stringifyBudget(budget)]

mountFrame ==
    UNCHANGED <<storeVars, route, ledgerVars, bankLines, reportVars, tzOffset,
                settingsVars, apiKey, isSuggesting, suggestCall, isParsing,
                parseCall, timeouts, sinceDelete>>

\* the load effect: setTransactions(Array.from(uniqueMap.values())) queues
\* the loaded list for the next render
loadEffect ==
    /\ mountStep = "mounted"
    /\ LET r == loadTransactions(storage.ngo_transactions, <<>>, nextId)
       IN /\ queued' = <<r.txs>>
          /\ nextId' = r.id
    /\ lastEvent' = Event("load", <<storage.ngo_transactions>>)
    /\ mountStep' = "loaded"
    /\ UNCHANGED <<transactions, storage, everReconciled>>
    /\ mountFrame

saveEffectMutant ==
    /\ mountStep \in {"loaded", "rendered"}
    /\ storage' = IF mountStep = "loaded"
                  THEN [storage EXCEPT
                          !.ngo_transactions = stringifyTransactions(transactions)]
                  ELSE storage
    /\ mountStep' = IF mountStep = "loaded" THEN "saved" ELSE "done"
    /\ UNCHANGED <<transactions, nextId, queued, lastEvent, everReconciled>>
    /\ mountFrame

\* the save effect of transactions: after the first render, with the initial
\* empty state, and after a render in which transactions has changed
saveEffect ==
    /\ mountStep \in {"loaded", "rendered"}
    /\ storage' = [storage EXCEPT
                     !.ngo_transactions = stringifyTransactions(transactions)]
    /\ mountStep' = IF mountStep = "loaded" THEN "saved" ELSE "done"
    /\ UNCHANGED <<transactions, nextId, queued, lastEvent, everReconciled>>
    /\ mountFrame

\* the render that follows the effects takes the queued state
rerender ==
    /\ mountStep = "saved" /\ queued # Null
    /\ transactions' = queued[1]
    /\ queued' = Null
    /\ mountStep' = "rendered"
    /\ History
    /\ UNCHANGED <<nextId, storage, lastEvent>>
    /\ mountFrame

NextMount ==
    \/ loadEffect
    \/ saveEffect
    \/ rerender

SpecMount == InitMount /\ [][NextMount]_vars

\* C29: start-up loses no persisted transaction: when the persisted blob is a
\* list, then after the load effect, the save effect of the initial empty
\* state and the save effect of the following render, the collection in
\* memory and the persisted blob both equal the deduplicated loaded list.
C29_StartupKeepsPersisted ==
    mountStep = "done" =>
        LET parsed == lastEvent.arg[1]
            loaded == loadTransactions(parsed, <<>>, FirstFreshId).txs
            ids == {StringOf(parsed[i].id) :
                       i \in {j \in 1..Len(parsed) : parsed[j].id # 0}}
            anonymous == {j \in 1..Len(parsed) : parsed[j].id = 0}
        IN /\ transactions = loaded
           /\ storage.ngo_transactions = loaded
           /\ Len(transactions) = Cardinality(ids) + Cardinality(anonymous)
           /\ \A n \in ids : \E k \in 1..Len(transactions) : transactions[k].id = n

\* start-up is over for a blob of three records, two of them under one id:
\* the two distinct records are in memory and in the blob
C29_Witness ==
    /\ mountStep = "done"
    /\ Len(lastEvent.arg[1]) = 3
    /\ Len(transactions) = 2
    /\ storage.ngo_transactions = transactions
    /\ transactions[1].id # transactions[2].id

(***************************************************************************)
(* SpecToast: the Undo toast of the Ledger with its timeouts, time counted *)
(* in ticks                                                                *)
(***************************************************************************)
ToastTicks == 2     \* the 5000 ms of the toast's timeout, in ticks
MaxTimeouts == 2    \* most timeouts pending at a time

\* handleDelete with time counted: setTimeout(..., 5000) is a pending timeout
handleDeleteTimed(id) ==
    /\ Len(timeouts) < MaxTimeouts
    /\ deleteAndShowToast(id)
    /\ timeouts' = Append(timeouts, ToastTicks)
    /\ sinceDelete' = <<0>>

\* a pending timeout is due: () => setShowUndoToast(false)
timeoutFires ==
    /\ timeouts # <<>> /\ Head(timeouts) = 0
    /\ timeouts' = Tail(timeouts)
    /\ showUndoToast' = FALSE
    /\ UNCHANGED <<transactions, storeVars, nextId, route, isModalOpen,
                   editingId, formData, deletedTx, bankLines, reportVars,
                   tzOffset, settingsVars, lastEvent, everReconciled, storage,
                   apiKey, isSuggesting, suggestCall, isParsing, parseCall,
                   sinceDelete, mountStep, queued>>

\* one tick of time passes; a timeout that is due fires first
Tick ==
    /\ timeouts # <<>>
    /\ \A i \in 1..Len(timeouts) : timeouts[i] > 0
    /\ timeouts' = [i \in 1..Len(timeouts) |-> timeouts[i] - 1]
    /\ sinceDelete' = IF sinceDelete # Null /\ sinceDelete[1] < ToastTicks
                      THEN <<sinceDelete[1] + 1>>
                      ELSE sinceDelete
    /\ UNCHANGED <<transactions, storeVars, nextId, route, ledgerVars,
                   bankLines, reportVars, tzOffset, settingsVars, lastEvent,
                   everReconciled, storage, apiKey, isSuggesting, suggestCall,
                   isParsing, parseCall, mountStep, queued>>

InitToast == Init

NextToast ==
    \/ \E r \in {"ledger", "reconciliation"} : Navigate(r)
    \/ OpenNewModal
    \/ \E in \in FormInputs : handleInputChange(in[1], in[2])
    \/ handleSubmit
    \/ \E id \in 1..MaxId : handleDeleteTimed(id)
    \/ handleUndo
    \/ HideUndoToast
    \/ timeoutFires
    \/ Tick

SpecToast == InitToast /\ [][NextToast]_vars

\* C30: after a Ledger delete the Undo toast of that delete stays up until 5
\* seconds have passed since that delete, unless the user presses Undo or
\* dismisses it (or leaves the page): the timeout of an earlier delete never
\* hides the toast of a later delete.
C30_ToastStaysFiveSeconds ==
    [][ (showUndoToast /\ ~showUndoToast') =>
           \/ handleUndo
           \/ HideUndoToast
           \/ \E r \in {"ledger", "reconciliation"} : Navigate(r)
           \/ sinceDelete # Null /\ sinceDelete[1] >= ToastTicks
      ]_vars

====
